---- MODULE Spec2Model ----
(***************************************************************************)
(* Model of the ipasir2-cpp wrapper (ipasir2cpp.h): one solver object, the *)
(* native IPASIR-2 layer it talks to, and the client closures the native   *)
(* layer reaches through the wrapper's callback trampolines.               *)
(*                                                                         *)
(* The variables m_* are the data members of ipasir2::solver.  nat_* is    *)
(* the state of the native layer that the wrapper depends on.  last, cb,   *)
(* released and init_result record what a client or the native layer       *)
(* observes (return values, exceptions, native calls made), in the way the *)
(* mock of tests/mock records them.                                        *)
(***************************************************************************)
EXTENDS Integers, Sequences, FiniteSets, TLC

\* ------------------------------------------------------------------ bounds
NumClosures == 2   \* distinct client closures a test may register
MaxThrows == 2     \* exceptions client closures may throw in one run
MaxLen == 1        \* longest clause / assumption sequence passed in
MaxHandle == 2     \* native handles 1..MaxHandle that ipasir2_init may return
MaxOptions == 2    \* options the native layer reports before the terminator
MaxLitValue == 32  \* literal values -MaxLitValue..MaxLitValue a client converts
MockInstances == 2 \* instance ids 1..MockInstances a test gives to the mock
MaxExpected == 2   \* expected calls queued in the mock at a time

\* --------------------------------------------------------------- universes
Closures == 1..NumClosures
NoClosure == 0          \* an empty std::function
NoException == 0        \* a null std::exception_ptr
Handles == 1..MaxHandle
NullHandle == 0         \* m_handle{nullptr, nullptr}

Statuses == {"IPASIR2_E_OK", "IPASIR2_E_UNKNOWN", "IPASIR2_E_UNSUPPORTED"}

ResultCodes == {0, 10, 20, 21}
WireLits == {1, -2}
Redundancies == {"none", "forgettable"}

VARIABLES
  phase,                           \* "uninitialized" | "active" | "released"
  m_handle,                        \* solver::m_handle
  m_clause_buf,                    \* solver::m_clause_buf
  m_terminate_callback,            \* solver::m_terminate_callback
  m_export_callback,               \* solver::m_export_callback
  m_exception_thrown_in_callback,  \* solver::m_exception_thrown_in_callback
  m_cached_options,                \* solver::m_cached_options
  nat_terminate,                   \* native layer holds the terminate trampoline
  nat_export,                      \* native layer holds the export trampoline
  nat_options,                     \* option list the native layer reports
  pc,                              \* "idle" | "solving" (inside native solve)
  native_solve,                    \* arguments of the native solve call in progress
  nthrown,                         \* exceptions thrown by client closures so far
  init_result,                     \* handle written by the successful ipasir2_init
  released,                        \* handles ipasir2_release was called with
  rethrown,                        \* callback exceptions solve has re-raised so far
  reg,                             \* the most recent set/clear call of each callback kind
  last,                            \* outcome of the last completed wrapper call
  cb,                              \* last trampoline invocation since the last wrapper call
  opt,                             \* option accesses made and native fetches that succeeded
  thrown_on,                       \* for each callback exception, the solver whose closure threw it
  api,                             \* the ipasir2 object and its table of entry points
  m_dll,                           \* the runtime-loaded module shared through shared_c_api::m_dll
  self,                            \* the solver object the m_* variables describe
  peer,                            \* the members of the other solver object
  lit_conv,                        \* the last literal conversion a client made through lit_traits
  mock                             \* the IPASIR-2 mock of the tests: instances, expectations, failures

vars == <<phase, m_handle, m_clause_buf, m_terminate_callback, m_export_callback,
          m_exception_thrown_in_callback, m_cached_options, nat_terminate, nat_export,
          nat_options, pc, native_solve, nthrown, init_result, released, rethrown, reg,
          last, cb, opt, thrown_on, api, m_dll, self, peer, lit_conv, mock>>

\* ------------------------------------------------------------ pure helpers

get_description(errorcode) ==
  CASE errorcode = "IPASIR2_E_OK" -> "The function call was successful."
    [] errorcode = "IPASIR2_E_UNKNOWN" -> "The function call failed for an unknown reason."
    [] errorcode = "IPASIR2_E_UNSUPPORTED" -> "The function is not implemented by the solver."
    [] OTHER -> "Unknown error"

\* ipasir2_error{func_name, code}
ipasir2_error(func_name, code) ==
  [code |-> code, message |-> <<func_name, "(): ", get_description(code)>>]

\* ipasir2_error{message}: no error code
ipasir2_error_msg(message) ==
  [code |-> "nullopt", message |-> <<message>>]

NoError == [code |-> "nullopt", message |-> <<>>]

\* throw_if_failed that reports every failure as IPASIR2_E_UNKNOWN
throw_if_failed_unknown(errorcode, func_name) ==
  IF errorcode # "IPASIR2_E_OK" THEN ipasir2_error(func_name, "IPASIR2_E_UNKNOWN") ELSE NoError

\* detail::throw_if_failed: the exception it throws, NoError when it returns
throw_if_failed(errorcode, func_name) ==
  IF errorcode # "IPASIR2_E_OK" THEN ipasir2_error(func_name, errorcode) ELSE NoError

\* to_solve_result with the two definite results exchanged
to_solve_result_swapped(ipasir2_solve_result) ==
  CASE ipasir2_solve_result = 10 -> "false"
    [] ipasir2_solve_result = 20 -> "true"
    [] OTHER -> "empty"

\* detail::to_solve_result: optional_bool as "true" | "false" | "empty"
to_solve_result(ipasir2_solve_result) ==
  CASE ipasir2_solve_result = 10 -> "true"
    [] ipasir2_solve_result = 20 -> "false"
    [] OTHER -> "empty"

\* custom_lit_test::lit, represented by its m_value
custom_lit(var, sign) == 2 * var + (IF sign THEN 1 ELSE 0)

custom_lit_sign(l) == (l % 2) = 1

custom_lit_var(l) == l \div 2

CustomLits == {custom_lit(1, TRUE), custom_lit(2, FALSE)}

\* lit_traits<Lit>::to_ipasir2_lit
to_ipasir2_lit(Lit, l) ==
  IF Lit = "int32_t" THEN l
  ELSE custom_lit_var(l) * (IF custom_lit_sign(l) THEN 1 ELSE -1)

\* lit_traits<Lit>::from_ipasir2_lit
from_ipasir2_lit(Lit, l) ==
  IF Lit = "int32_t" THEN l
  ELSE custom_lit(IF l < 0 THEN -l ELSE l, l > 0)

\* as_contiguous_int32s that copies every input into the scratch buffer
as_contiguous_int32s_always_copy(in, buffer) ==
  IF in.elems = <<>>
  THEN [ptr |-> "m_clause_buf", len |-> 0, buffer |-> <<0>>, data |-> <<>>]
  ELSE LET conv == [i \in 1..Len(in.elems) |->
                      to_ipasir2_lit(IF in.iter = "custom" THEN "custom" ELSE "int32_t",
                                     in.elems[i])]
       IN [ptr |-> "m_clause_buf", len |-> Len(conv), buffer |-> conv, data |-> conv]

\* as_contiguous_int32s that converts into the scratch buffer without clearing it
as_contiguous_int32s_without_clear(in, buffer) ==
  IF in.elems = <<>>
  THEN [ptr |-> "m_clause_buf", len |-> 0, buffer |-> <<0>>, data |-> <<>>]
  ELSE CASE in.iter = "contiguous" ->
              [ptr |-> "input", len |-> Len(in.elems), buffer |-> buffer, data |-> in.elems]
         [] in.iter = "noncontiguous" ->
              [ptr |-> "m_clause_buf", len |-> Len(in.elems), buffer |-> in.elems,
               data |-> in.elems]
         [] OTHER ->
              LET conv == [i \in 1..Len(in.elems) |-> to_ipasir2_lit("custom", in.elems[i])]
              IN [ptr |-> "m_clause_buf", len |-> Len(buffer \o conv),
                  buffer |-> buffer \o conv, data |-> buffer \o conv]

\* detail::as_contiguous_int32s on the range `in` with scratch buffer `buffer`.
\* in.iter is "contiguous" (int32 pointers, vector iterators), "noncontiguous"
\* (other int32 iterators) or "custom" (iterators over a custom literal type).
as_contiguous_int32s(in, buffer) ==
  IF in.elems = <<>>
  THEN [ptr |-> "m_clause_buf", len |-> 0, buffer |-> <<0>>, data |-> <<>>]
  ELSE CASE in.iter = "contiguous" ->
              [ptr |-> "input", len |-> Len(in.elems), buffer |-> buffer, data |-> in.elems]
         [] in.iter = "noncontiguous" ->
              [ptr |-> "m_clause_buf", len |-> Len(in.elems), buffer |-> in.elems,
               data |-> in.elems]
         [] OTHER ->
              LET conv == [i \in 1..Len(in.elems) |-> to_ipasir2_lit("custom", in.elems[i])]
              IN [ptr |-> "m_clause_buf", len |-> Len(conv), buffer |-> conv, data |-> conv]

RECURSIVE zero_pos(_, _)
zero_pos(clause, i) == IF clause[i] = 0 THEN i ELSE zero_pos(clause, i + 1)

\* detail::clause_view_from_zero_terminated
clause_view_from_zero_terminated(clause) == SubSeq(clause, 1, zero_pos(clause, 1) - 1)

\* --------------------------------------------------- inputs of the clients

SeqsUpTo(S, n) == UNION {[1..k -> S] : k \in 0..n}

\* literal ranges a client passes to add() and solve()
LitRanges ==
  [iter : {"contiguous", "noncontiguous"}, elems : SeqsUpTo(WireLits, MaxLen)]
    \cup [iter : {"custom"}, elems : SeqsUpTo(CustomLits, MaxLen)]

Absent == [iter |-> "absent", elems |-> <<>>]

\* ------------------------------------------------------------ observations

Call(fn, status, args) == [fn |-> fn, status |-> status, args |-> args]

Returned(op, calls, value) ==
  [op |-> op, calls |-> calls, kind |-> "return", value |-> value, options |-> <<>>,
   error |-> NoError, exc |-> NoException, pending |-> NoException]

Threw(op, calls, err) ==
  [op |-> op, calls |-> calls, kind |-> "ipasir2_error", value |-> "none", options |-> <<>>,
   error |-> err, exc |-> NoException, pending |-> NoException]

NoOp == Returned("none", <<>>, "none")

NoCb == [kind |-> "none", pending |-> FALSE, called |-> NoClosure, ret |-> 0,
         threw |-> NoException, view |-> <<>>]

\* A trampoline invocation: whether an exception was pending on entry, the
\* client closure it called (NoClosure if none), the exception that closure
\* threw, the view the closure was given and the value returned to the caller
Invocation(kind, pending, called, threw, view, ret) ==
  [kind |-> kind, pending |-> pending # NoException, called |-> called, ret |-> ret,
   threw |-> threw, view |-> view]

\* The observations carry the value returned as a word ("true", "false", "empty"
\* for bool and optional_bool, "none" for void) and, for get_option and
\* get_options, the option objects returned in `options`.

\* A set/clear callback call: which one, the closure passed, whether it raised
RegCall(op, callback, failed) == [op |-> op, callback |-> callback, failed |-> failed]

NoReg == RegCall("none", NoClosure, FALSE)

\* The native option array ends with a descriptor whose name is null.  An
\* `option` object points at a descriptor: here, its index in the array.
OptionEnd == [name |-> "nullptr"]

\* std::optional<std::vector<option>>{}
nullopt == [has_value |-> FALSE, value |-> <<>>]

NoSolve == [overload |-> "none", ptr |-> "nullptr", len |-> 0, data |-> <<>>]

\* No option operation was called yet on the solver
NoAccess == [accessed |-> FALSE, fetched |-> FALSE]

\* The IPASIR-2 entry points, in the order create_api resolves them
RequiredSyms ==
  <<"ipasir2_add", "ipasir2_failed", "ipasir2_init", "ipasir2_options", "ipasir2_release",
    "ipasir2_set_export", "ipasir2_set_option", "ipasir2_set_terminate",
    "ipasir2_signature", "ipasir2_solve", "ipasir2_val">>

RequiredSymSet == {RequiredSyms[i] : i \in DOMAIN RequiredSyms}

\* No ipasir2 object was created yet
NoApi == [state |-> "none", funcs |-> {}]

\* create_api(): the ipasir2 object over the entry points linked at build
\* time.  funcs are the members of shared_c_api that are not null.
LinkedApi == [state |-> "alive", funcs |-> RequiredSymSet]

\* shared_c_api::m_dll of an api with linked symbols: no module.  For a
\* runtime-loaded module, state is "loaded" or "unloaded", use_count is the
\* number of shared_ptr<dll const> that own it, unloads counts the calls of
\* dlclose, and dangling_call tells whether an entry point of the module was
\* called after dlclose.
NoDll == [state |-> "none", use_count |-> 0, unloads |-> 0, dangling_call |-> FALSE]

\* a copy of shared_c_api, which copies m_dll
dll_acquire(d) ==
  IF d.state = "none" THEN d ELSE [d EXCEPT !.use_count = @ + 1]

\* the destructor of a shared_c_api: m_dll gives up its share, and the last
\* owner destroys the dll_impl, which calls dlclose
dll_release(d) ==
  IF d.state = "none" THEN d
  ELSE IF d.use_count = 1
       THEN [d EXCEPT !.state = "unloaded", !.use_count = 0, !.unloads = @ + 1]
       ELSE [d EXCEPT !.use_count = @ - 1]

\* a call through a function pointer of the table
native_call(d) ==
  IF d.state = "unloaded" THEN [d EXCEPT !.dangling_call = TRUE] ELSE d

\* no literal was converted yet
NoConv == [Lit |-> "none", x |-> 0, wire |-> 0, back |-> 0]

\* instance ids of the mock
MockIds == 1..MockInstances

\* an id the mock has no mock_solver_instance for
UnknownInstance ==
  [known |-> FALSE, is_initialized |-> FALSE, is_released |-> FALSE, expected_calls |-> <<>>]

\* an empty std::optional<next_init_call>
NoInitCall == [has_value |-> FALSE, id |-> 0, return_value |-> "IPASIR2_E_OK"]

\* ipasir2_mock_impl after construction.  fail is the message the last call
\* gave to the fail observer, thrown the ipasir2_mock_error the last call of
\* the test threw, ret what the last call returned; "none" if there is none.
NoMock ==
  [m_instances |-> [i \in MockIds |-> UnknownInstance],
   m_next_init_call |-> NoInitCall,
   m_terminate_callbacks |-> {},
   m_export_callbacks |-> {},
   fn |-> "none", on |-> 0, ret |-> "none", result |-> 0, fail |-> "none",
   thrown |-> "none"]

\* The members of a solver object that was not constructed yet, with the
\* registrations the native layer holds for it
NoSolver ==
  [phase |-> "uninitialized", m_handle |-> NullHandle, m_clause_buf |-> <<>>,
   m_terminate_callback |-> NoClosure,
   m_export_callback |-> [callback |-> NoClosure, Lit |-> "int32_t", buf |-> <<>>],
   m_exception_thrown_in_callback |-> NoException, m_cached_options |-> nullopt,
   nat_terminate |-> FALSE, nat_export |-> FALSE, pc |-> "idle",
   native_solve |-> NoSolve, opt |-> NoAccess,
   reg |-> [terminate |-> NoReg, export |-> NoReg]]

\* ----------------------------------------------------------------- initial

Init ==
  /\ phase = "uninitialized"
  /\ m_handle = NullHandle
  /\ m_clause_buf = <<>>
  /\ m_terminate_callback = NoClosure
  /\ m_export_callback = [callback |-> NoClosure, Lit |-> "int32_t", buf |-> <<>>]
  /\ m_exception_thrown_in_callback = NoException
  /\ m_cached_options = nullopt
  /\ nat_terminate = FALSE
  /\ nat_export = FALSE
  /\ nat_options = <<OptionEnd>>
  /\ pc = "idle"
  /\ native_solve = NoSolve
  /\ nthrown = 0
  /\ init_result = NullHandle
  /\ released = <<>>
  /\ rethrown = {}
  /\ reg = [terminate |-> NoReg, export |-> NoReg]
  /\ last = NoOp
  /\ cb = NoCb
  /\ opt = NoAccess
  /\ thrown_on = <<>>
  /\ api = LinkedApi
  /\ m_dll = NoDll
  /\ self = 1
  /\ peer = NoSolver
  /\ lit_conv = NoConv
  /\ mock = NoMock

\* -------------------------------------------------------------- lifecycle

\* ipasir2::create_solver -> solver::create -> solver::solver.  The native
\* ipasir2_init returns `status` and writes handle h.
create_solver(status, h) ==
  /\ api.state = "alive"
  /\ phase = "uninitialized"
  /\ pc = "idle"
  /\ LET calls == <<Call("ipasir2_init", status, <<>>)>>
         err == throw_if_failed(status, "ipasir2_init")
     IN IF err # NoError
        THEN \* the constructor throws: m_handle{nullptr, nullptr} is destroyed, no object exists
             \* m_api, the copy of the api's table, is destroyed with it
             /\ last' = Threw("create_solver", calls, err)
             /\ m_dll' = dll_release(native_call(dll_acquire(m_dll)))
             /\ UNCHANGED <<phase, m_handle, init_result>>
        ELSE /\ phase' = "active"
             /\ m_handle' = h
             /\ init_result' = h
             /\ m_dll' = native_call(dll_acquire(m_dll))
             /\ last' = Returned("create_solver", calls, "solver")
  /\ cb' = NoCb
  /\ UNCHANGED <<rethrown, reg>>
  /\ UNCHANGED <<opt, thrown_on, api, self, peer, lit_conv, mock>>
  /\ UNCHANGED <<m_clause_buf, m_terminate_callback, m_export_callback,
                 m_exception_thrown_in_callback, m_cached_options, nat_terminate,
                 nat_export, nat_options, pc, native_solve, nthrown, released>>

\* A deleter that never calls release
unique_ipasir2_handle_dtor_no_release(handle, log) == log

\* The deleter of unique_ipasir2_handle: calls release unless the pointer is null
unique_ipasir2_handle_dtor(handle, log) ==
  IF handle # NullHandle THEN Append(log, handle) ELSE log

\* A solver whose m_api is destroyed before its m_handle
solver_members_dtor_api_first(d) == native_call(dll_release(d))

\* The destructors of the members of solver, in reverse order of declaration:
\* m_handle (declared after m_api) calls ipasir2_release through the table,
\* then m_api gives up its share of the module
solver_members_dtor(d) == dll_release(native_call(d))

\* solver::~solver (implicit): members are destroyed, m_handle calls m_api.release,
\* whose status the deleter ignores
destroy_solver(status) ==
  /\ phase = "active"
  /\ pc = "idle"
  /\ phase' = "released"
  /\ released' = unique_ipasir2_handle_dtor(m_handle, released)
  /\ m_handle' = NullHandle
  /\ m_clause_buf' = <<>>
  /\ m_terminate_callback' = NoClosure
  /\ m_export_callback' = [callback |-> NoClosure, Lit |-> "int32_t", buf |-> <<>>]
  /\ m_exception_thrown_in_callback' = NoException
  /\ m_cached_options' = nullopt
  /\ nat_terminate' = FALSE
  /\ nat_export' = FALSE
  /\ m_dll' = solver_members_dtor(m_dll)
  /\ last' = Returned("~solver", <<Call("ipasir2_release", status, <<m_handle>>)>>, "none")
  /\ cb' = NoCb
  /\ UNCHANGED <<rethrown, reg>>
  /\ UNCHANGED <<opt, thrown_on, api, self, peer, lit_conv, mock>>
  /\ UNCHANGED <<nat_options, pc, native_solve, nthrown, init_result>>

\* ----------------------------------------------------- the ipasir2 object

\* dll_impl::get_sym that hands on what dlsym returned
get_sym_unchecked(exported, name) ==
  IF name \in exported THEN "resolved" ELSE "nullptr"

\* dll_impl::get_sym for a module that exports the symbols `exported`: the
\* address, or "throw" for the ipasir2_error it raises when dlsym returns null
get_sym(exported, name) ==
  IF name \in exported THEN "resolved" ELSE "throw"

\* the first entry point, in the order of create_api, for which get_sym
\* throws; 0 if there is none
RECURSIVE first_throw(_, _)
first_throw(exported, i) ==
  IF i > Len(RequiredSyms) THEN 0
  ELSE IF get_sym(exported, RequiredSyms[i]) = "throw" THEN i
  ELSE first_throw(exported, i + 1)

\* create_api(library): make_shared<dll_impl>(library), then
\* create_api(shared_ptr<dll const>).  dlopen succeeds iff `openable`; the
\* module exports the symbols `exported`.
create_api(openable, exported) ==
  /\ api.state = "none"
  /\ m_dll.state = "none"
  /\ phase = "uninitialized"
  /\ pc = "idle"
  /\ IF ~openable
     THEN \* the constructor of dll_impl throws
          /\ last' = Threw("create_api", <<>>,
                           [code |-> "nullopt", message |-> <<"Could not open ", "library">>])
          /\ UNCHANGED <<api, m_dll>>
     ELSE LET loaded == [state |-> "loaded", use_count |-> 1, unloads |-> 0,
                         dangling_call |-> FALSE]
              missing == first_throw(exported, 1)
          IN IF missing # 0
             THEN \* load_func_sym throws: ipasir2_funcs and the shared_ptr are destroyed
                  /\ last' = Threw("create_api", <<>>,
                                   [code |-> "nullopt",
                                    message |-> <<"Symbol ", RequiredSyms[missing],
                                                  " not found in ", "library">>])
                  /\ m_dll' = dll_release(loaded)
                  /\ UNCHANGED api
             ELSE /\ last' = Returned("create_api", <<>>, "ipasir2")
                  /\ m_dll' = loaded
                  /\ api' = [state |-> "alive",
                             funcs |-> {RequiredSyms[i] : i \in
                                          {j \in DOMAIN RequiredSyms :
                                             get_sym(exported, RequiredSyms[j]) = "resolved"}}]
  /\ cb' = NoCb
  /\ UNCHANGED <<rethrown, reg>>
  /\ UNCHANGED <<opt, thrown_on, self, peer, lit_conv, mock>>
  /\ UNCHANGED <<phase, m_handle, m_clause_buf, m_terminate_callback, m_export_callback,
                 m_exception_thrown_in_callback, m_cached_options, nat_terminate,
                 nat_export, nat_options, pc, native_solve, nthrown, init_result, released>>

\* ipasir2::~ipasir2 (implicit): m_api is destroyed
destroy_api ==
  /\ api.state = "alive"
  /\ pc = "idle"
  /\ api' = [state |-> "destroyed", funcs |-> {}]
  /\ m_dll' = dll_release(m_dll)
  /\ last' = Returned("~ipasir2", <<>>, "none")
  /\ cb' = NoCb
  /\ UNCHANGED <<rethrown, reg>>
  /\ UNCHANGED <<opt, thrown_on, self, peer, lit_conv, mock>>
  /\ UNCHANGED <<phase, m_handle, m_clause_buf, m_terminate_callback, m_export_callback,
                 m_exception_thrown_in_callback, m_cached_options, nat_terminate,
                 nat_export, nat_options, pc, native_solve, nthrown, init_result, released>>

\* -------------------------------------------------------------- callbacks

\* What the native layer does with a set_terminate / set_export request:
\* it applies the request when it returns success; when it fails it may or
\* may not have applied it (the mock registers before it returns the error).
NativeApplies(status, applied_on_failure) ==
  status = "IPASIR2_E_OK" \/ applied_on_failure

\* set_terminate_callback that stores the closure only on first registration
set_terminate_callback_keeps_old(callback, status, applied) ==
  /\ phase = "active"
  /\ pc = "idle"
  /\ IF m_terminate_callback = NoClosure
     THEN LET calls == <<Call("ipasir2_set_terminate", status, <<m_handle, "this", "trampoline">>)>>
              err == throw_if_failed(status, "ipasir2_set_terminate")
          IN /\ nat_terminate' = IF NativeApplies(status, applied) THEN TRUE ELSE nat_terminate
             /\ IF err # NoError
                THEN /\ last' = Threw("set_terminate_callback", calls, err)
                     /\ reg' = [reg EXCEPT !.terminate = RegCall("set", callback, TRUE)]
                     /\ UNCHANGED m_terminate_callback
                ELSE /\ last' = Returned("set_terminate_callback", calls, "none")
                     /\ reg' = [reg EXCEPT !.terminate = RegCall("set", callback, FALSE)]
                     /\ m_terminate_callback' = callback
     ELSE /\ UNCHANGED m_terminate_callback
          /\ last' = Returned("set_terminate_callback", <<>>, "none")
          /\ reg' = [reg EXCEPT !.terminate = RegCall("set", callback, FALSE)]
          /\ UNCHANGED nat_terminate
  /\ cb' = NoCb
  /\ UNCHANGED <<rethrown>>
  /\ UNCHANGED <<opt, thrown_on, api, m_dll, self, peer, lit_conv, mock>>
  /\ UNCHANGED <<phase, m_handle, m_clause_buf, m_export_callback,
                 m_exception_thrown_in_callback, m_cached_options, nat_export,
                 nat_options, pc, native_solve, nthrown, init_result, released>>

\* solver::set_terminate_callback(callback)
set_terminate_callback(callback, status, applied) ==
  /\ phase = "active"
  /\ pc = "idle"
  /\ IF m_terminate_callback = NoClosure
     THEN LET calls == <<Call("ipasir2_set_terminate", status, <<m_handle, "this", "trampoline">>)>>
              err == throw_if_failed(status, "ipasir2_set_terminate")
          IN /\ nat_terminate' = IF NativeApplies(status, applied) THEN TRUE ELSE nat_terminate
             /\ IF err # NoError
                THEN /\ last' = Threw("set_terminate_callback", calls, err)
                     /\ reg' = [reg EXCEPT !.terminate = RegCall("set", callback, TRUE)]
                     /\ UNCHANGED m_terminate_callback
                ELSE /\ last' = Returned("set_terminate_callback", calls, "none")
                     /\ reg' = [reg EXCEPT !.terminate = RegCall("set", callback, FALSE)]
                     /\ m_terminate_callback' = callback
     ELSE /\ m_terminate_callback' = callback
          /\ last' = Returned("set_terminate_callback", <<>>, "none")
          /\ reg' = [reg EXCEPT !.terminate = RegCall("set", callback, FALSE)]
          /\ UNCHANGED nat_terminate
  /\ cb' = NoCb
  /\ UNCHANGED <<rethrown>>
  /\ UNCHANGED <<opt, thrown_on, api, m_dll, self, peer, lit_conv, mock>>
  /\ UNCHANGED <<phase, m_handle, m_clause_buf, m_export_callback,
                 m_exception_thrown_in_callback, m_cached_options, nat_export,
                 nat_options, pc, native_solve, nthrown, init_result, released>>

\* clear_terminate_callback that resets the closure only after the native call succeeded
clear_terminate_callback_native_first(status, applied) ==
  /\ phase = "active"
  /\ pc = "idle"
  /\ LET calls == <<Call("ipasir2_set_terminate", status, <<m_handle, "nullptr", "nullptr">>)>>
         err == throw_if_failed(status, "ipasir2_set_terminate")
     IN /\ nat_terminate' = IF NativeApplies(status, applied) THEN FALSE ELSE nat_terminate
        /\ m_terminate_callback' = IF err # NoError THEN m_terminate_callback ELSE NoClosure
        /\ last' = IF err # NoError
                   THEN Threw("clear_terminate_callback", calls, err)
                   ELSE Returned("clear_terminate_callback", calls, "none")
        /\ reg' = [reg EXCEPT !.terminate = RegCall("clear", NoClosure, err # NoError)]
  /\ cb' = NoCb
  /\ UNCHANGED <<rethrown>>
  /\ UNCHANGED <<opt, thrown_on, api, m_dll, self, peer, lit_conv, mock>>
  /\ UNCHANGED <<phase, m_handle, m_clause_buf, m_export_callback,
                 m_exception_thrown_in_callback, m_cached_options, nat_export,
                 nat_options, pc, native_solve, nthrown, init_result, released>>

\* solver::clear_terminate_callback()
clear_terminate_callback(status, applied) ==
  /\ phase = "active"
  /\ pc = "idle"
  /\ m_terminate_callback' = NoClosure
  /\ LET calls == <<Call("ipasir2_set_terminate", status, <<m_handle, "nullptr", "nullptr">>)>>
         err == throw_if_failed(status, "ipasir2_set_terminate")
     IN /\ nat_terminate' = IF NativeApplies(status, applied) THEN FALSE ELSE nat_terminate
        /\ last' = IF err # NoError
                   THEN Threw("clear_terminate_callback", calls, err)
                   ELSE Returned("clear_terminate_callback", calls, "none")
        /\ reg' = [reg EXCEPT !.terminate = RegCall("clear", NoClosure, err # NoError)]
  /\ cb' = NoCb
  /\ UNCHANGED <<rethrown>>
  /\ UNCHANGED <<opt, thrown_on, api, m_dll, self, peer, lit_conv, mock>>
  /\ UNCHANGED <<phase, m_handle, m_clause_buf, m_export_callback,
                 m_exception_thrown_in_callback, m_cached_options, nat_export,
                 nat_options, pc, native_solve, nthrown, init_result, released>>

\* The std::function stored in m_export_callback: the client closure, the
\* literal type it takes, and the buffer the converting lambda captures
ExportClosure(Lit, callback) == [callback |-> callback, Lit |-> Lit, buf |-> <<>>]

NoExportClosure == ExportClosure("int32_t", NoClosure)

\* set_export_callback without the reset of the stored closure before the native call
set_export_callback_without_reset(Lit, callback, max_size, status, applied) ==
  /\ phase = "active"
  /\ pc = "idle"
  /\ LET calls == <<Call("ipasir2_set_export", status, <<m_handle, "this", max_size, "trampoline">>)>>
         err == throw_if_failed(status, "ipasir2_set_export")
     IN /\ nat_export' = IF NativeApplies(status, applied) THEN TRUE ELSE nat_export
        /\ IF err # NoError
           THEN /\ last' = Threw("set_export_callback", calls, err)
                /\ UNCHANGED m_export_callback
           ELSE /\ last' = Returned("set_export_callback", calls, "none")
                /\ m_export_callback' = ExportClosure(Lit, callback)
        /\ reg' = [reg EXCEPT !.export = RegCall("set", callback, err # NoError)]
  /\ cb' = NoCb
  /\ UNCHANGED <<rethrown>>
  /\ UNCHANGED <<opt, thrown_on, api, m_dll, self, peer, lit_conv, mock>>
  /\ UNCHANGED <<phase, m_handle, m_clause_buf, m_terminate_callback,
                 m_exception_thrown_in_callback, m_cached_options, nat_terminate,
                 nat_options, pc, native_solve, nthrown, init_result, released>>

\* set_export_callback that stores the closure before the native call
set_export_callback_storing_first(Lit, callback, max_size, status, applied) ==
  /\ phase = "active"
  /\ pc = "idle"
  /\ LET calls == <<Call("ipasir2_set_export", status, <<m_handle, "this", max_size, "trampoline">>)>>
         err == throw_if_failed(status, "ipasir2_set_export")
     IN /\ nat_export' = IF NativeApplies(status, applied) THEN TRUE ELSE nat_export
        /\ IF err # NoError
           THEN /\ last' = Threw("set_export_callback", calls, err)
                /\ m_export_callback' = ExportClosure(Lit, callback)
           ELSE /\ last' = Returned("set_export_callback", calls, "none")
                /\ m_export_callback' = ExportClosure(Lit, callback)
        /\ reg' = [reg EXCEPT !.export = RegCall("set", callback, err # NoError)]
  /\ cb' = NoCb
  /\ UNCHANGED <<rethrown>>
  /\ UNCHANGED <<opt, thrown_on, api, m_dll, self, peer, lit_conv, mock>>
  /\ UNCHANGED <<phase, m_handle, m_clause_buf, m_terminate_callback,
                 m_exception_thrown_in_callback, m_cached_options, nat_terminate,
                 nat_options, pc, native_solve, nthrown, init_result, released>>

\* solver::set_export_callback<Lit>(callback, max_size)
set_export_callback(Lit, callback, max_size, status, applied) ==
  /\ phase = "active"
  /\ pc = "idle"
  /\ LET calls == <<Call("ipasir2_set_export", status, <<m_handle, "this", max_size, "trampoline">>)>>
         err == throw_if_failed(status, "ipasir2_set_export")
     IN /\ nat_export' = IF NativeApplies(status, applied) THEN TRUE ELSE nat_export
        /\ IF err # NoError
           THEN /\ last' = Threw("set_export_callback", calls, err)
                /\ m_export_callback' = NoExportClosure
           ELSE /\ last' = Returned("set_export_callback", calls, "none")
                /\ m_export_callback' = ExportClosure(Lit, callback)
        /\ reg' = [reg EXCEPT !.export = RegCall("set", callback, err # NoError)]
  /\ cb' = NoCb
  /\ UNCHANGED <<rethrown>>
  /\ UNCHANGED <<opt, thrown_on, api, m_dll, self, peer, lit_conv, mock>>
  /\ UNCHANGED <<phase, m_handle, m_clause_buf, m_terminate_callback,
                 m_exception_thrown_in_callback, m_cached_options, nat_terminate,
                 nat_options, pc, native_solve, nthrown, init_result, released>>

\* solver::clear_export_callback()
clear_export_callback(status, applied) ==
  /\ phase = "active"
  /\ pc = "idle"
  /\ m_export_callback' = NoExportClosure
  /\ LET calls == <<Call("ipasir2_set_export", status, <<m_handle, "nullptr", 0, "nullptr">>)>>
         err == throw_if_failed(status, "ipasir2_set_export")
     IN /\ nat_export' = IF NativeApplies(status, applied) THEN FALSE ELSE nat_export
        /\ last' = IF err # NoError
                   THEN Threw("clear_export_callback", calls, err)
                   ELSE Returned("clear_export_callback", calls, "none")
        /\ reg' = [reg EXCEPT !.export = RegCall("clear", NoClosure, err # NoError)]
  /\ cb' = NoCb
  /\ UNCHANGED <<rethrown>>
  /\ UNCHANGED <<opt, thrown_on, api, m_dll, self, peer, lit_conv, mock>>
  /\ UNCHANGED <<phase, m_handle, m_clause_buf, m_terminate_callback,
                 m_exception_thrown_in_callback, m_cached_options, nat_terminate,
                 nat_options, pc, native_solve, nthrown, init_result, released>>

\* ------------------------------------------------------------- trampolines

\* What a client closure does when it is invoked
TerminateOutcomes == {"true", "false", "throw"}

ExportOutcomes == {"return", "throw"}

\* a conversion that reports every truth value as the abort signal
bool_to_int_always_abort(b) == 1

\* int result of the terminate trampoline for a bool
bool_to_int(b) == IF b THEN 1 ELSE 0

\* The terminate trampoline without the check for a pending exception
terminate_trampoline_unchecked(outcome) ==
  /\ phase = "active"
  /\ nat_terminate
  /\ LET pend == m_exception_thrown_in_callback
     IN IF m_terminate_callback # NoClosure
        THEN IF outcome = "throw"
             THEN /\ nthrown < MaxThrows
                  /\ nthrown' = nthrown + 1
                  /\ m_exception_thrown_in_callback' = nthrown + 1
                  /\ cb' = Invocation("terminate", pend, m_terminate_callback,
                                      nthrown + 1, <<>>, bool_to_int(TRUE))
             ELSE /\ cb' = Invocation("terminate", pend, m_terminate_callback,
                                      NoException, <<>>, bool_to_int(outcome = "true"))
                  /\ UNCHANGED <<m_exception_thrown_in_callback, nthrown>>
        ELSE /\ cb' = Invocation("terminate", pend, NoClosure, NoException, <<>>,
                                 bool_to_int(FALSE))
             /\ UNCHANGED <<m_exception_thrown_in_callback, nthrown>>
  /\ UNCHANGED <<rethrown, reg>>
  /\ thrown_on' = IF nthrown' # nthrown THEN Append(thrown_on, self) ELSE thrown_on
  /\ UNCHANGED <<opt, api, m_dll, self, peer, lit_conv, mock>>
  /\ UNCHANGED <<phase, m_handle, m_clause_buf, m_terminate_callback, m_export_callback,
                 m_cached_options, nat_terminate, nat_export, nat_options, pc,
                 native_solve, init_result, released, last>>

\* The lambda that set_terminate_callback registers, invoked by the native
\* layer with the solver as cookie.  `outcome` is what the client closure
\* does if it is called.
terminate_trampoline(outcome) ==
  /\ phase = "active"
  /\ nat_terminate
  /\ LET pend == m_exception_thrown_in_callback
     IN IF m_exception_thrown_in_callback # NoException
        THEN /\ cb' = Invocation("terminate", pend, NoClosure, NoException, <<>>,
                                 bool_to_int(TRUE))
             /\ UNCHANGED <<m_exception_thrown_in_callback, nthrown>>
        ELSE IF m_terminate_callback # NoClosure
             THEN IF outcome = "throw"
                  THEN /\ nthrown < MaxThrows
                       /\ nthrown' = nthrown + 1
                       /\ m_exception_thrown_in_callback' = nthrown + 1
                       /\ cb' = Invocation("terminate", pend, m_terminate_callback,
                                           nthrown + 1, <<>>, bool_to_int(TRUE))
                  ELSE /\ cb' = Invocation("terminate", pend, m_terminate_callback,
                                           NoException, <<>>, bool_to_int(outcome = "true"))
                       /\ UNCHANGED <<m_exception_thrown_in_callback, nthrown>>
             ELSE /\ cb' = Invocation("terminate", pend, NoClosure, NoException, <<>>,
                                      bool_to_int(FALSE))
                  /\ UNCHANGED <<m_exception_thrown_in_callback, nthrown>>
  /\ UNCHANGED <<rethrown, reg>>
  /\ thrown_on' = IF nthrown' # nthrown THEN Append(thrown_on, self) ELSE thrown_on
  /\ UNCHANGED <<opt, api, m_dll, self, peer, lit_conv, mock>>
  /\ UNCHANGED <<phase, m_handle, m_clause_buf, m_terminate_callback, m_export_callback,
                 m_cached_options, nat_terminate, nat_export, nat_options, pc,
                 native_solve, init_result, released, last>>

\* The clause view the stored export closure hands to the client closure
export_view(Lit, native_clause) ==
  [i \in 1..Len(native_clause) |-> from_ipasir2_lit(Lit, native_clause[i])]

\* a converting lambda that appends to its buffer without clearing it first
export_closure_call_without_clear(closure, native_clause) ==
  IF closure.Lit = "int32_t"
  THEN [view |-> native_clause, buf |-> closure.buf]
  ELSE LET filled == closure.buf \o export_view(closure.Lit, native_clause)
       IN [view |-> filled, buf |-> filled]

\* A call of the stored std::function with the native clause: an int32_t
\* closure gets the native view itself; for another literal type the lambda
\* clears its buffer, pushes the converted literals and hands on a view of
\* the buffer.  Gives that view and the buffer afterwards.
export_closure_call(closure, native_clause) ==
  IF closure.Lit = "int32_t"
  THEN [view |-> native_clause, buf |-> closure.buf]
  ELSE LET cleared == <<>>
           filled == cleared \o export_view(closure.Lit, native_clause)
       IN [view |-> filled, buf |-> filled]

\* The lambda that set_export_callback registers, invoked by the native layer
\* with the solver as cookie and a zero-terminated clause.
export_trampoline(clause, outcome) ==
  /\ phase = "active"
  /\ nat_export
  /\ LET pend == m_exception_thrown_in_callback
     IN IF m_exception_thrown_in_callback # NoException
        THEN /\ cb' = Invocation("export", pend, NoClosure, NoException, <<>>, 0)
             /\ UNCHANGED <<m_exception_thrown_in_callback, nthrown, m_export_callback>>
        ELSE IF m_export_callback.callback # NoClosure
             THEN LET r == export_closure_call(m_export_callback,
                                               clause_view_from_zero_terminated(clause))
                  IN /\ m_export_callback' = [m_export_callback EXCEPT !.buf = r.buf]
                     /\ IF outcome = "throw"
                        THEN /\ nthrown < MaxThrows
                             /\ nthrown' = nthrown + 1
                             /\ m_exception_thrown_in_callback' = nthrown + 1
                             /\ cb' = Invocation("export", pend, m_export_callback.callback,
                                                 nthrown + 1, r.view, 0)
                        ELSE /\ cb' = Invocation("export", pend, m_export_callback.callback,
                                                 NoException, r.view, 0)
                             /\ UNCHANGED <<m_exception_thrown_in_callback, nthrown>>
             ELSE /\ cb' = Invocation("export", pend, NoClosure, NoException, <<>>, 0)
                  /\ UNCHANGED <<m_exception_thrown_in_callback, nthrown, m_export_callback>>
  /\ UNCHANGED <<rethrown, reg>>
  /\ thrown_on' = IF nthrown' # nthrown THEN Append(thrown_on, self) ELSE thrown_on
  /\ UNCHANGED <<opt, api, m_dll, self, peer, lit_conv, mock>>
  /\ UNCHANGED <<phase, m_handle, m_clause_buf, m_terminate_callback,
                 m_cached_options, nat_terminate, nat_export, nat_options, pc,
                 native_solve, init_result, released, last>>

\* ------------------------------------------------------------ add / solve

\* The body of solver::add(Iter start, Iter stop, redundancy red), reported as
\* the overload `op` that the client called
add_as(op, in, red, status) ==
  /\ phase = "active"
  /\ pc = "idle"
  /\ LET m == as_contiguous_int32s(in, m_clause_buf)
         calls == <<Call("ipasir2_add", status, <<m_handle, m.ptr, m.len, m.data, red>>)>>
         err == throw_if_failed(status, "ipasir2_add")
     IN /\ m_clause_buf' = m.buffer
        /\ last' = IF err # NoError THEN Threw(op, calls, err)
                   ELSE Returned(op, calls, "none")
  /\ cb' = NoCb
  /\ UNCHANGED <<rethrown, reg>>
  /\ UNCHANGED <<opt, thrown_on, api, m_dll, self, peer, lit_conv, mock>>
  /\ UNCHANGED <<phase, m_handle, m_terminate_callback, m_export_callback,
                 m_exception_thrown_in_callback, m_cached_options, nat_terminate,
                 nat_export, nat_options, pc, native_solve, nthrown, init_result, released>>

\* solver::add(start, stop, red)
add(in, red, status) == add_as("add", in, red, status)

\* no redundancy argument counts as the last one of the enumeration
redundancy_or_default_last(red) == IF red = <<>> THEN "forgettable" ELSE red[1]

\* The redundancy of an add call: red is <<>> when the client gave none
\* (default argument redundancy::none, and redundancy::none of the
\* parameter-pack overload), or <<r>>
redundancy_or_default(red) == IF red = <<>> THEN "none" ELSE red[1]

\* solver::add(Iter start, Iter stop) and solver::add(start, stop, red)
add_iterators(in, red, status) ==
  /\ add_as("add(Iter, Iter)", in, redundancy_or_default(red), status)

\* solver::add(LitContainer const&, redundancy red = redundancy::none):
\* forwards begin(container), end(container)
add_container(container, red, status) ==
  /\ add_as("add(LitContainer)", container, redundancy_or_default(red), status)

\* solver::add(T lit, Ts... rest) and add_parampack_helper: the literals are
\* put into a std::array, and an optional trailing redundancy is split off.
\* lits.iter is what the build makes of the iterators of std::array.
add_parampack(lits, red, status) ==
  /\ lits.elems # <<>>
  /\ add_as("add(T, Ts...)", lits, redundancy_or_default(red), status)

\* solve that looks at the pending-exception slot before it calls ipasir2_solve
solve_call_checking_first(in) ==
  /\ phase = "active"
  /\ pc = "idle"
  /\ IF m_exception_thrown_in_callback # NoException
     THEN /\ last' = [Returned(IF in = Absent THEN "solve()" ELSE "solve(Iter, Iter)",
                               <<>>, "none") EXCEPT
                        !.kind = "exception", !.exc = m_exception_thrown_in_callback,
                        !.pending = m_exception_thrown_in_callback]
          /\ m_exception_thrown_in_callback' = NoException
          /\ rethrown' = rethrown \cup {m_exception_thrown_in_callback}
          /\ UNCHANGED <<pc, native_solve, m_clause_buf>>
     ELSE /\ IF in = Absent
             THEN /\ native_solve' = [overload |-> "solve()", ptr |-> "nullptr", len |-> 0,
                                      data |-> <<>>]
                  /\ UNCHANGED m_clause_buf
             ELSE LET m == as_contiguous_int32s(in, m_clause_buf)
                  IN /\ native_solve' = [overload |-> "solve(Iter, Iter)", ptr |-> m.ptr,
                                         len |-> m.len, data |-> m.data]
                     /\ m_clause_buf' = m.buffer
          /\ pc' = "solving"
          /\ UNCHANGED <<rethrown, m_exception_thrown_in_callback, last>>
  /\ cb' = NoCb
  /\ UNCHANGED <<reg>>
  /\ UNCHANGED <<opt, thrown_on, api, m_dll, self, peer, lit_conv, mock>>
  /\ UNCHANGED <<phase, m_handle, m_terminate_callback, m_export_callback,
                 m_cached_options, nat_terminate,
                 nat_export, nat_options, nthrown, init_result, released>>

\* solver::solve() and solver::solve(start, stop) up to the native call: the
\* assumptions are marshalled and control enters ipasir2_solve.
solve_call(in) ==
  /\ phase = "active"
  /\ pc = "idle"
  /\ IF in = Absent
     THEN /\ native_solve' = [overload |-> "solve()", ptr |-> "nullptr", len |-> 0,
                              data |-> <<>>]
          /\ UNCHANGED m_clause_buf
     ELSE LET m == as_contiguous_int32s(in, m_clause_buf)
          IN /\ native_solve' = [overload |-> "solve(Iter, Iter)", ptr |-> m.ptr,
                                 len |-> m.len, data |-> m.data]
             /\ m_clause_buf' = m.buffer
  /\ pc' = "solving"
  /\ cb' = NoCb
  /\ UNCHANGED <<rethrown, reg>>
  /\ UNCHANGED <<opt, thrown_on, api, m_dll, self, peer, lit_conv, mock>>
  /\ UNCHANGED <<phase, m_handle, m_terminate_callback, m_export_callback,
                 m_exception_thrown_in_callback, m_cached_options, nat_terminate,
                 nat_export, nat_options, nthrown, init_result, released, last>>

\* rethrow_exception_thrown_in_callback that forgets to clear the slot
rethrow_without_clearing(slot) ==
  [to_throw |-> slot, slot |-> slot]

\* solver::rethrow_exception_thrown_in_callback: the exception it throws
\* (NoException when it returns) and the new content of the slot
rethrow_exception_thrown_in_callback(slot) ==
  IF slot # NoException
  THEN [to_throw |-> slot, slot |-> NoException]
  ELSE [to_throw |-> NoException, slot |-> slot]

\* solve that translates the native status before it looks at the pending exception
solve_return_status_first(status, result) ==
  /\ phase = "active"
  /\ pc = "solving"
  /\ LET calls == <<Call("ipasir2_solve", status, <<m_handle, result>>)>>
         err == throw_if_failed(status, "ipasir2_solve")
         r == IF err # NoError
              THEN [to_throw |-> NoException, slot |-> m_exception_thrown_in_callback]
              ELSE rethrow_exception_thrown_in_callback(m_exception_thrown_in_callback)
         op == native_solve.overload
         pend == m_exception_thrown_in_callback
     IN /\ m_exception_thrown_in_callback' = r.slot
        /\ rethrown' = IF r.to_throw # NoException THEN rethrown \cup {r.to_throw}
                        ELSE rethrown
        /\ last' = IF err # NoError
                   THEN [Threw(op, calls, err) EXCEPT !.pending = pend]
                   ELSE IF r.to_throw # NoException
                        THEN [Returned(op, calls, "none") EXCEPT
                                !.kind = "exception", !.exc = r.to_throw, !.pending = pend]
                        ELSE [Returned(op, calls, to_solve_result(result)) EXCEPT
                                !.pending = pend]
  /\ pc' = "idle"
  /\ native_solve' = NoSolve
  /\ UNCHANGED <<reg>>
  /\ UNCHANGED <<opt, thrown_on, api, m_dll, self, peer, lit_conv, mock>>
  /\ UNCHANGED <<phase, m_handle, m_clause_buf, m_terminate_callback, m_export_callback,
                 m_cached_options, nat_terminate, nat_export, nat_options, nthrown,
                 init_result, released, cb>>

\* solver::solve from the return of ipasir2_solve, which yields `status` and
\* has written `result`
solve_return(status, result) ==
  /\ phase = "active"
  /\ pc = "solving"
  /\ LET calls == <<Call("ipasir2_solve", status, <<m_handle, result>>)>>
         r == rethrow_exception_thrown_in_callback(m_exception_thrown_in_callback)
         err == throw_if_failed(status, "ipasir2_solve")
         op == native_solve.overload
         pend == m_exception_thrown_in_callback
     IN /\ m_exception_thrown_in_callback' = r.slot
        /\ rethrown' = IF r.to_throw # NoException THEN rethrown \cup {r.to_throw}
                        ELSE rethrown
        /\ last' = IF r.to_throw # NoException
                   THEN [Returned(op, calls, "none") EXCEPT
                           !.kind = "exception", !.exc = r.to_throw, !.pending = pend]
                   ELSE IF err # NoError
                        THEN [Threw(op, calls, err) EXCEPT !.pending = pend]
                        ELSE [Returned(op, calls, to_solve_result(result)) EXCEPT
                                !.pending = pend]
  /\ pc' = "idle"
  /\ native_solve' = NoSolve
  /\ UNCHANGED <<reg>>
  /\ UNCHANGED <<opt, thrown_on, api, m_dll, self, peer, lit_conv, mock>>
  /\ UNCHANGED <<phase, m_handle, m_clause_buf, m_terminate_callback, m_export_callback,
                 m_cached_options, nat_terminate, nat_export, nat_options, nthrown,
                 init_result, released, cb>>

\* get_ipasir2_handle that also empties the pending-exception slot
get_ipasir2_handle_resetting_slot ==
  /\ phase = "active"
  /\ pc = "idle"
  /\ last' = Returned("get_ipasir2_handle", <<>>, "handle")
  /\ m_exception_thrown_in_callback' = NoException
  /\ cb' = NoCb
  /\ UNCHANGED <<rethrown, reg>>
  /\ UNCHANGED <<opt, thrown_on, api, m_dll, self, peer, lit_conv, mock>>
  /\ UNCHANGED <<phase, m_handle, m_clause_buf, m_terminate_callback, m_export_callback,
                 m_cached_options, nat_terminate,
                 nat_export, nat_options, pc, native_solve, nthrown, init_result, released>>

\* solver::get_ipasir2_handle(): returns m_handle.get()
get_ipasir2_handle ==
  /\ phase = "active"
  /\ pc = "idle"
  /\ last' = Returned("get_ipasir2_handle", <<>>, "handle")
  /\ cb' = NoCb
  /\ UNCHANGED <<rethrown, reg>>
  /\ UNCHANGED <<opt, thrown_on, api, m_dll, self, peer, lit_conv, mock>>
  /\ UNCHANGED <<phase, m_handle, m_clause_buf, m_terminate_callback, m_export_callback,
                 m_exception_thrown_in_callback, m_cached_options, nat_terminate,
                 nat_export, nat_options, pc, native_solve, nthrown, init_result, released>>

\* -------------------------------------------------------- literal queries

LitTypes == {"int32_t", "custom"}

\* literals of type Lit that a client passes to lit_value / assumption_failed
LitsOf(Lit) == IF Lit = "int32_t" THEN WireLits ELSE CustomLits

\* values the native layer writes as result of ipasir2_val / ipasir2_failed
NativeValues == {-2, -1, 0, 1, 2}

\* lit_value that takes every value other than the literal itself and 0 as false
lit_value_without_range_check(Lit, lit, status, result) ==
  /\ phase = "active"
  /\ pc = "idle"
  /\ LET ipasir2_lit == to_ipasir2_lit(Lit, lit)
         calls == <<Call("ipasir2_val", status, <<m_handle, ipasir2_lit, result>>)>>
         err == throw_if_failed(status, "ipasir2_val")
     IN last' = IF err # NoError THEN Threw("lit_value", calls, err)
                ELSE IF result = ipasir2_lit THEN Returned("lit_value", calls, "true")
                ELSE IF result = 0 THEN Returned("lit_value", calls, "empty")
                ELSE Returned("lit_value", calls, "false")
  /\ cb' = NoCb
  /\ UNCHANGED <<rethrown, reg>>
  /\ UNCHANGED <<opt, thrown_on, api, m_dll, self, peer, lit_conv, mock>>
  /\ UNCHANGED <<phase, m_handle, m_clause_buf, m_terminate_callback, m_export_callback,
                 m_exception_thrown_in_callback, m_cached_options, nat_terminate,
                 nat_export, nat_options, pc, native_solve, nthrown, init_result, released>>

\* solver::lit_value<Lit>(lit)
lit_value(Lit, lit, status, result) ==
  /\ phase = "active"
  /\ pc = "idle"
  /\ LET ipasir2_lit == to_ipasir2_lit(Lit, lit)
         calls == <<Call("ipasir2_val", status, <<m_handle, ipasir2_lit, result>>)>>
         err == throw_if_failed(status, "ipasir2_val")
     IN last' = IF err # NoError THEN Threw("lit_value", calls, err)
                ELSE IF result = ipasir2_lit THEN Returned("lit_value", calls, "true")
                ELSE IF result = -ipasir2_lit THEN Returned("lit_value", calls, "false")
                ELSE IF result = 0 THEN Returned("lit_value", calls, "empty")
                ELSE Threw("lit_value", calls,
                           ipasir2_error_msg("Unknown truth value received from solver"))
  /\ cb' = NoCb
  /\ UNCHANGED <<rethrown, reg>>
  /\ UNCHANGED <<opt, thrown_on, api, m_dll, self, peer, lit_conv, mock>>
  /\ UNCHANGED <<phase, m_handle, m_clause_buf, m_terminate_callback, m_export_callback,
                 m_exception_thrown_in_callback, m_cached_options, nat_terminate,
                 nat_export, nat_options, pc, native_solve, nthrown, init_result, released>>

\* assumption_failed that returns result != 0 without checking the range
assumption_failed_without_range_check(Lit, lit, status, result) ==
  /\ phase = "active"
  /\ pc = "idle"
  /\ LET ipasir2_lit == to_ipasir2_lit(Lit, lit)
         calls == <<Call("ipasir2_failed", status, <<m_handle, ipasir2_lit, result>>)>>
         err == throw_if_failed(status, "ipasir2_failed")
     IN last' = IF err # NoError THEN Threw("assumption_failed", calls, err)
                ELSE Returned("assumption_failed", calls,
                              IF result # 0 THEN "true" ELSE "false")
  /\ cb' = NoCb
  /\ UNCHANGED <<rethrown, reg>>
  /\ UNCHANGED <<opt, thrown_on, api, m_dll, self, peer, lit_conv, mock>>
  /\ UNCHANGED <<phase, m_handle, m_clause_buf, m_terminate_callback, m_export_callback,
                 m_exception_thrown_in_callback, m_cached_options, nat_terminate,
                 nat_export, nat_options, pc, native_solve, nthrown, init_result, released>>

\* solver::assumption_failed<Lit>(lit)
assumption_failed(Lit, lit, status, result) ==
  /\ phase = "active"
  /\ pc = "idle"
  /\ LET ipasir2_lit == to_ipasir2_lit(Lit, lit)
         calls == <<Call("ipasir2_failed", status, <<m_handle, ipasir2_lit, result>>)>>
         err == throw_if_failed(status, "ipasir2_failed")
     IN last' = IF err # NoError THEN Threw("assumption_failed", calls, err)
                ELSE IF result # 0 /\ result # 1
                     THEN Threw("assumption_failed", calls,
                                ipasir2_error_msg("Unknown truth value received from solver"))
                     ELSE Returned("assumption_failed", calls,
                                   IF result = 1 THEN "true" ELSE "false")
  /\ cb' = NoCb
  /\ UNCHANGED <<rethrown, reg>>
  /\ UNCHANGED <<opt, thrown_on, api, m_dll, self, peer, lit_conv, mock>>
  /\ UNCHANGED <<phase, m_handle, m_clause_buf, m_terminate_callback, m_export_callback,
                 m_exception_thrown_in_callback, m_cached_options, nat_terminate,
                 nat_export, nat_options, pc, native_solve, nthrown, init_result, released>>

\* ----------------------------------------------------------------- options

OptionNames == {"a", "b"}

RECURSIVE options_until_end(_, _)
options_until_end(array, cursor) ==
  IF array[cursor].name = "nullptr" THEN <<>>
  ELSE <<cursor>> \o options_until_end(array, cursor + 1)

\* What the native layer has seen of the option operations of a solver after
\* one more of them that made the native calls `calls`
OptionAccess(o, calls) ==
  [accessed |-> TRUE,
   fetched |-> o.fetched \/ \E i \in DOMAIN calls :
                               calls[i].fn = "ipasir2_options" /\ calls[i].status = "IPASIR2_E_OK"]

\* ensure_options_cached that creates the empty list before it checks the status
ensure_options_cached_caching_on_failure(cache, status) ==
  IF ~cache.has_value
  THEN LET calls == <<Call("ipasir2_options", status, <<m_handle>>)>>
           err == throw_if_failed(status, "ipasir2_options")
       IN IF err # NoError
          THEN [calls |-> calls, err |-> err, cache |-> [has_value |-> TRUE, value |-> <<>>]]
          ELSE [calls |-> calls, err |-> NoError,
                cache |-> [has_value |-> TRUE, value |-> options_until_end(nat_options, 1)]]
  ELSE [calls |-> <<>>, err |-> NoError, cache |-> cache]

\* ensure_options_cached that asks the native layer on every access
ensure_options_cached_every_time(cache, status) ==
  LET calls == <<Call("ipasir2_options", status, <<m_handle>>)>>
      err == throw_if_failed(status, "ipasir2_options")
  IN IF err # NoError
     THEN [calls |-> calls, err |-> err, cache |-> cache]
     ELSE [calls |-> calls, err |-> NoError,
           cache |-> [has_value |-> TRUE, value |-> options_until_end(nat_options, 1)]]

\* solver::ensure_options_cached: the native calls it makes, the exception it
\* throws (NoError when it returns) and the cache afterwards
ensure_options_cached(cache, status) ==
  IF ~cache.has_value
  THEN LET calls == <<Call("ipasir2_options", status, <<m_handle>>)>>
           err == throw_if_failed(status, "ipasir2_options")
       IN IF err # NoError
          THEN [calls |-> calls, err |-> err, cache |-> cache]
          ELSE [calls |-> calls, err |-> NoError,
                cache |-> [has_value |-> TRUE, value |-> options_until_end(nat_options, 1)]]
  ELSE [calls |-> <<>>, err |-> NoError, cache |-> cache]

\* find_if that keeps the last option with the name instead of the first
RECURSIVE find_option_last(_, _, _)
find_option_last(options, name, i) ==
  IF i > Len(options) THEN 0
  ELSE LET later == find_option_last(options, name, i + 1)
       IN IF later # 0 THEN later
          ELSE IF nat_options[options[i]].name = name THEN i ELSE 0

\* std::find_if over the cached options by name: the position found, 0 for end()
RECURSIVE find_option(_, _, _)
find_option(options, name, i) ==
  IF i > Len(options) THEN 0
  ELSE IF nat_options[options[i]].name = name THEN i
  ELSE find_option(options, name, i + 1)

\* solver::get_option(name)
get_option(name, status) ==
  /\ phase = "active"
  /\ pc = "idle"
  /\ LET e == ensure_options_cached(m_cached_options, status)
     IN /\ m_cached_options' = e.cache
        /\ opt' = OptionAccess(opt, e.calls)
        /\ last' = IF e.err # NoError THEN Threw("get_option", e.calls, e.err)
                   ELSE LET result == find_option(e.cache.value, name, 1)
                        IN IF result = 0
                           THEN Threw("get_option", e.calls,
                                      ipasir2_error_msg("the solver does not implement the given option"))
                           ELSE [Returned("get_option", e.calls, "option") EXCEPT
                                   !.options = <<e.cache.value[result]>>]
  /\ cb' = NoCb
  /\ UNCHANGED <<rethrown, reg>>
  /\ UNCHANGED <<thrown_on, api, m_dll, self, peer, lit_conv, mock>>
  /\ UNCHANGED <<phase, m_handle, m_clause_buf, m_terminate_callback, m_export_callback,
                 m_exception_thrown_in_callback, nat_terminate, nat_export, nat_options,
                 pc, native_solve, nthrown, init_result, released>>

\* solver::get_options()
get_options(status) ==
  /\ phase = "active"
  /\ pc = "idle"
  /\ LET e == ensure_options_cached(m_cached_options, status)
     IN /\ m_cached_options' = e.cache
        /\ opt' = OptionAccess(opt, e.calls)
        /\ last' = IF e.err # NoError THEN Threw("get_options", e.calls, e.err)
                   ELSE [Returned("get_options", e.calls, "options") EXCEPT
                           !.options = e.cache.value]
  /\ cb' = NoCb
  /\ UNCHANGED <<rethrown, reg>>
  /\ UNCHANGED <<thrown_on, api, m_dll, self, peer, lit_conv, mock>>
  /\ UNCHANGED <<phase, m_handle, m_clause_buf, m_terminate_callback, m_export_callback,
                 m_exception_thrown_in_callback, nat_terminate, nat_export, nat_options,
                 pc, native_solve, nthrown, init_result, released>>

\* solver::has_option(name)
has_option(name, status) ==
  /\ phase = "active"
  /\ pc = "idle"
  /\ LET e == ensure_options_cached(m_cached_options, status)
     IN /\ m_cached_options' = e.cache
        /\ opt' = OptionAccess(opt, e.calls)
        /\ last' = IF e.err # NoError THEN Threw("has_option", e.calls, e.err)
                   ELSE Returned("has_option", e.calls,
                                 IF find_option(e.cache.value, name, 1) # 0
                                 THEN "true" ELSE "false")
  /\ cb' = NoCb
  /\ UNCHANGED <<rethrown, reg>>
  /\ UNCHANGED <<thrown_on, api, m_dll, self, peer, lit_conv, mock>>
  /\ UNCHANGED <<phase, m_handle, m_clause_buf, m_terminate_callback, m_export_callback,
                 m_exception_thrown_in_callback, nat_terminate, nat_export, nat_options,
                 pc, native_solve, nthrown, init_result, released>>

\* The trailing parameter `int64_t index = 0` of both set_option overloads:
\* <<>> when the caller omits it, <<i>> when the caller passes i
index_or_default(index) == IF index = <<>> THEN 0 ELSE index[1]

\* solver::set_option(option, value, index), with an option object that
\* get_option or get_options of this solver returned
set_option(option, value, index, status) ==
  /\ phase = "active"
  /\ pc = "idle"
  /\ m_cached_options.has_value
  /\ option \in {m_cached_options.value[i] : i \in DOMAIN m_cached_options.value}
  /\ LET calls == <<Call("ipasir2_set_option", status,
                         <<m_handle, option, value, index_or_default(index)>>)>>
         err == throw_if_failed(status, "ipasir2_set_option")
     IN last' = IF err # NoError THEN Threw("set_option(option)", calls, err)
                ELSE Returned("set_option(option)", calls, "none")
  /\ cb' = NoCb
  /\ UNCHANGED <<rethrown, reg>>
  /\ UNCHANGED <<opt, thrown_on, api, m_dll, self, peer, lit_conv, mock>>
  /\ UNCHANGED <<phase, m_handle, m_clause_buf, m_terminate_callback, m_export_callback,
                 m_exception_thrown_in_callback, m_cached_options, nat_terminate,
                 nat_export, nat_options, pc, native_solve, nthrown, init_result, released>>

\* solver::set_option(name, value, index): get_option(name), then set_option
set_option_by_name(name, value, index, options_status, status) ==
  /\ phase = "active"
  /\ pc = "idle"
  /\ LET e == ensure_options_cached(m_cached_options, options_status)
     IN /\ m_cached_options' = e.cache
        /\ opt' = OptionAccess(opt, e.calls)
        /\ last' = IF e.err # NoError THEN Threw("set_option(name)", e.calls, e.err)
                   ELSE LET result == find_option(e.cache.value, name, 1)
                        IN IF result = 0
                           THEN Threw("set_option(name)", e.calls,
                                      ipasir2_error_msg("the solver does not implement the given option"))
                           ELSE LET calls == e.calls \o
                                       <<Call("ipasir2_set_option", status,
                                              <<m_handle, e.cache.value[result], value,
                                                index_or_default(index)>>)>>
                                    err == throw_if_failed(status, "ipasir2_set_option")
                                IN IF err # NoError THEN Threw("set_option(name)", calls, err)
                                   ELSE Returned("set_option(name)", calls, "none")
  /\ cb' = NoCb
  /\ UNCHANGED <<rethrown, reg>>
  /\ UNCHANGED <<thrown_on, api, m_dll, self, peer, lit_conv, mock>>
  /\ UNCHANGED <<phase, m_handle, m_clause_buf, m_terminate_callback, m_export_callback,
                 m_exception_thrown_in_callback, nat_terminate, nat_export, nat_options,
                 pc, native_solve, nthrown, init_result, released>>

\* ipasir2::signature(), on the api object (which exists whatever the solver's phase)
signature(status) ==
  /\ api.state = "alive"
  /\ pc = "idle"
  /\ LET calls == <<Call("ipasir2_signature", status, <<>>)>>
         err == throw_if_failed(status, "ipasir2_signature")
     IN last' = IF err # NoError THEN Threw("signature", calls, err)
                ELSE Returned("signature", calls, "result")
  /\ cb' = NoCb
  /\ UNCHANGED <<rethrown, reg>>
  /\ UNCHANGED <<opt, thrown_on, api, m_dll, self, peer, lit_conv, mock>>
  /\ UNCHANGED <<phase, m_handle, m_clause_buf, m_terminate_callback, m_export_callback,
                 m_exception_thrown_in_callback, m_cached_options, nat_terminate,
                 nat_export, nat_options, pc, native_solve, nthrown, init_result, released>>

\* ------------------------------------------------------------ specification

ExportClauses == {<<0>>, <<1, 0>>}

\* solve() and solve(start, stop) on int32 storage holding one assumption
SolveInputs == {Absent, [iter |-> "contiguous", elems |-> <<1>>]}

\* Statuses the native layer returns in Spec: success and one failure
OkOrUnknown == {"IPASIR2_E_OK", "IPASIR2_E_UNKNOWN"}

\* The solver with its callbacks: registration, trampoline invocations by the
\* native layer, and solve.
Next ==
  \/ \E status \in OkOrUnknown : create_solver(status, 1)
  \/ \E status \in OkOrUnknown : destroy_solver(status)
  \/ \E c \in Closures, status \in OkOrUnknown, applied \in BOOLEAN :
       set_terminate_callback(c, status, applied)
  \/ \E status \in OkOrUnknown, applied \in BOOLEAN : clear_terminate_callback(status, applied)
  \/ \E c \in Closures, status \in OkOrUnknown, applied \in BOOLEAN :
       set_export_callback("int32_t", c, 0, status, applied)
  \/ \E status \in OkOrUnknown, applied \in BOOLEAN : clear_export_callback(status, applied)
  \/ \E outcome \in TerminateOutcomes : terminate_trampoline(outcome)
  \/ \E clause \in ExportClauses, outcome \in ExportOutcomes : export_trampoline(clause, outcome)
  \/ \E in \in SolveInputs : solve_call(in)
  \/ \E status \in OkOrUnknown, result \in ResultCodes : solve_return(status, result)

Spec == Init /\ [][Next]_vars

\* Every wrapper operation that calls a native entry point, with every
\* status; one closure per callback kind and one input per operation.
InitOps ==
  /\ phase = "uninitialized"
  /\ m_handle = NullHandle
  /\ m_clause_buf = <<>>
  /\ m_terminate_callback = NoClosure
  /\ m_export_callback = NoExportClosure
  /\ m_exception_thrown_in_callback = NoException
  /\ m_cached_options = nullopt
  /\ nat_terminate = FALSE
  /\ nat_export = FALSE
  /\ nat_options = <<[name |-> "a"], OptionEnd>>
  /\ pc = "idle"
  /\ native_solve = NoSolve
  /\ nthrown = 0
  /\ init_result = NullHandle
  /\ released = <<>>
  /\ rethrown = {}
  /\ reg = [terminate |-> NoReg, export |-> NoReg]
  /\ last = NoOp
  /\ cb = NoCb
  /\ opt = NoAccess
  /\ thrown_on = <<>>
  /\ api = LinkedApi
  /\ m_dll = NoDll
  /\ self = 1
  /\ peer = NoSolver
  /\ lit_conv = NoConv
  /\ mock = NoMock

NextOps ==
  \/ \E status \in Statuses : create_solver(status, 1)
  \/ \E status \in Statuses : destroy_solver(status)
  \/ \E status \in Statuses : set_terminate_callback(1, status, TRUE)
  \/ \E status \in Statuses : clear_terminate_callback(status, FALSE)
  \/ \E status \in Statuses : set_export_callback("int32_t", 1, 0, status, TRUE)
  \/ \E status \in Statuses : clear_export_callback(status, FALSE)
  \/ terminate_trampoline("throw")
  \/ export_trampoline(<<0>>, "throw")
  \/ \E status \in Statuses : add([iter |-> "noncontiguous", elems |-> <<1>>], "none", status)
  \/ \E in \in {Absent, [iter |-> "contiguous", elems |-> <<1>>]} : solve_call(in)
  \/ \E status \in Statuses : solve_return(status, 10)
  \/ \E status \in Statuses, result \in {1, 2} : lit_value("int32_t", 1, status, result)
  \/ \E status \in Statuses, result \in {1, 2} :
       assumption_failed("custom", custom_lit(2, FALSE), status, result)
  \/ \E name \in OptionNames, status \in Statuses : get_option(name, status)
  \/ \E status \in Statuses : get_options(status)
  \/ \E name \in OptionNames, status \in Statuses : has_option(name, status)
  \/ \E status \in Statuses : set_option(1, 7, <<0>>, status)
  \/ \E name \in OptionNames, options_status \in Statuses, status \in Statuses :
       set_option_by_name(name, 7, <<1>>, options_status, status)
  \/ \E status \in Statuses : signature(status)
  \/ get_ipasir2_handle

SpecOps == InitOps /\ [][NextOps]_vars

\* The life of a solver object, with clauses added and assumptions passed
\* from every kind of literal range while it is active
NextClauses ==
  \/ \E status \in Statuses, h \in Handles : create_solver(status, h)
  \/ \E status \in Statuses : destroy_solver(status)
  \/ \E in \in LitRanges, red \in Redundancies, status \in Statuses : add(in, red, status)
  \/ \E in \in LitRanges \cup {Absent} : solve_call(in)
  \/ \E status \in Statuses, result \in ResultCodes : solve_return(status, result)

SpecClauses == Init /\ [][NextClauses]_vars

\* ------------------------------------- callbacks over a faithful native layer

\* Set and clear calls of both callbacks with any native status, over a native
\* layer that applies a request exactly when it returns success, and the
\* callbacks it then makes
NextCallbacks ==
  \/ create_solver("IPASIR2_E_OK", 1)
  \/ destroy_solver("IPASIR2_E_OK")
  \/ \E c \in Closures, status \in Statuses : set_terminate_callback(c, status, FALSE)
  \/ \E status \in Statuses : clear_terminate_callback(status, FALSE)
  \/ \E Lit \in LitTypes, c \in Closures, status \in Statuses :
       set_export_callback(Lit, c, 0, status, FALSE)
  \/ \E status \in Statuses : clear_export_callback(status, FALSE)
  \/ terminate_trampoline("false")
  \/ export_trampoline(<<1, 0>>, "return")

SpecCallbacks == Init /\ [][NextCallbacks]_vars

\* ------------------------------------------------------- exported clauses

ExportLen == 2     \* longest clause the native layer exports

\* zero-terminated clauses the native layer hands to the export trampoline
NativeClauses == {Append(c, 0) : c \in SeqsUpTo(WireLits, ExportLen)}

NextExport ==
  \/ create_solver("IPASIR2_E_OK", 1)
  \/ \E Lit \in LitTypes, status \in OkOrUnknown :
       set_export_callback(Lit, 1, 0, status, TRUE)
  \/ \E clause \in NativeClauses, outcome \in ExportOutcomes :
       export_trampoline(clause, outcome)
  \/ solve_call(Absent)
  \/ solve_return("IPASIR2_E_OK", 10)

SpecExport == Init /\ [][NextExport]_vars

\* ------------------------------------------------------ literal conversion

\* the values of the literal type Lit: an int32_t, or the m_value of a
\* custom_lit_test::lit
LitValues(Lit) == -MaxLitValue..MaxLitValue

\* A client converts the literal x of type Lit to the wire and back, as add()
\* and the export callback do through lit_traits<Lit>
convert_roundtrip(Lit, x) ==
  /\ lit_conv' = [Lit |-> Lit, x |-> x, wire |-> to_ipasir2_lit(Lit, x),
                  back |-> from_ipasir2_lit(Lit, to_ipasir2_lit(Lit, x))]
  /\ UNCHANGED <<phase, m_handle, m_clause_buf, m_terminate_callback, m_export_callback,
                 m_exception_thrown_in_callback, m_cached_options, nat_terminate,
                 nat_export, nat_options, pc, native_solve, nthrown, init_result,
                 released, rethrown, reg, last, cb, opt, thrown_on, api, m_dll, self,
                 peer, mock>>

NextLits ==
  \E Lit \in LitTypes : \E x \in LitValues(Lit) : convert_roundtrip(Lit, x)

SpecLits == Init /\ [][NextLits]_vars

\* ------------------------------------------------- two solvers, two threads

\* The members of the solver the running thread works on, with the
\* registrations the native layer holds for its handle
Current ==
  [phase |-> phase, m_handle |-> m_handle, m_clause_buf |-> m_clause_buf,
   m_terminate_callback |-> m_terminate_callback,
   m_export_callback |-> m_export_callback,
   m_exception_thrown_in_callback |-> m_exception_thrown_in_callback,
   m_cached_options |-> m_cached_options,
   nat_terminate |-> nat_terminate, nat_export |-> nat_export, pc |-> pc,
   native_solve |-> native_solve, opt |-> opt, reg |-> reg]

\* A scheduler in which the clause buffer belongs to the thread, not the solver
yield_shared_buffer ==
  /\ self' = 3 - self
  /\ peer' = Current
  /\ phase' = peer.phase
  /\ m_handle' = peer.m_handle
  /\ m_clause_buf' = m_clause_buf
  /\ m_terminate_callback' = peer.m_terminate_callback
  /\ m_export_callback' = peer.m_export_callback
  /\ m_exception_thrown_in_callback' = peer.m_exception_thrown_in_callback
  /\ m_cached_options' = peer.m_cached_options
  /\ nat_terminate' = peer.nat_terminate
  /\ nat_export' = peer.nat_export
  /\ pc' = peer.pc
  /\ native_solve' = peer.native_solve
  /\ opt' = peer.opt
  /\ reg' = peer.reg
  /\ last' = Returned("yield", <<>>, "none")
  /\ cb' = NoCb
  /\ UNCHANGED <<nat_options, nthrown, init_result, released, rethrown, thrown_on, api, m_dll,
                 lit_conv, mock>>

\* The scheduler runs the other thread: each of the two threads owns one
\* solver, whose data members are its own; the variables hold the members of
\* the running thread's solver, `peer` those of the other one
yield ==
  /\ self' = 3 - self
  /\ peer' = Current
  /\ phase' = peer.phase
  /\ m_handle' = peer.m_handle
  /\ m_clause_buf' = peer.m_clause_buf
  /\ m_terminate_callback' = peer.m_terminate_callback
  /\ m_export_callback' = peer.m_export_callback
  /\ m_exception_thrown_in_callback' = peer.m_exception_thrown_in_callback
  /\ m_cached_options' = peer.m_cached_options
  /\ nat_terminate' = peer.nat_terminate
  /\ nat_export' = peer.nat_export
  /\ pc' = peer.pc
  /\ native_solve' = peer.native_solve
  /\ opt' = peer.opt
  /\ reg' = peer.reg
  /\ last' = Returned("yield", <<>>, "none")
  /\ cb' = NoCb
  /\ UNCHANGED <<nat_options, nthrown, init_result, released, rethrown, thrown_on, api, m_dll,
                 lit_conv, mock>>

\* Two threads, each with a solver of its own, as in the portfolio example:
\* a terminate closure of its own, clauses, option queries and solve calls
\* with callbacks, interleaved in any order
NextThreads ==
  \/ create_solver("IPASIR2_E_OK", self)
  \/ add([iter |-> "noncontiguous", elems |-> <<IF self = 1 THEN 1 ELSE -2>>],
         "none", "IPASIR2_E_OK")
  \/ set_terminate_callback(self, "IPASIR2_E_OK", TRUE)
  \/ set_export_callback("int32_t", self, 0, "IPASIR2_E_OK", TRUE)
  \/ \E outcome \in {"false", "throw"} : terminate_trampoline(outcome)
  \/ get_options("IPASIR2_E_OK")
  \/ solve_call(Absent)
  \/ solve_return("IPASIR2_E_OK", 10)
  \/ yield

SpecThreads == Init /\ [][NextThreads]_vars

\* ------------------------------------------------------- adding clauses

AddLen == 2        \* longest clause passed to add

\* clauses over the literals S in which no literal occurs twice
AddClauses(S) ==
  {c \in SeqsUpTo(S, AddLen) : \A i, j \in DOMAIN c : c[i] = c[j] => i = j}

\* literal ranges a client passes to the add overloads
AddRanges ==
  [iter : {"contiguous", "noncontiguous"}, elems : AddClauses(WireLits)]
    \cup [iter : {"custom"}, elems : AddClauses(CustomLits)]

\* the optional redundancy argument
OptRedundancies == {<<>>} \cup {<<r>> : r \in Redundancies}

NextAdd ==
  \/ create_solver("IPASIR2_E_OK", 1)
  \/ \E in \in AddRanges, red \in OptRedundancies, status \in OkOrUnknown :
       \/ add_iterators(in, red, status)
       \/ add_container(in, red, status)
       \/ add_parampack(in, red, status)

SpecAdd == Init /\ [][NextAdd]_vars

\* ----------------------------------------------- runtime-loaded libraries

\* What a library may export: everything, everything but one entry point, nothing
ExportSets == {RequiredSymSet} \cup {RequiredSymSet \ {n} : n \in RequiredSymSet} \cup {{}}

InitDll ==
  /\ phase = "uninitialized"
  /\ m_handle = NullHandle
  /\ m_clause_buf = <<>>
  /\ m_terminate_callback = NoClosure
  /\ m_export_callback = [callback |-> NoClosure, Lit |-> "int32_t", buf |-> <<>>]
  /\ m_exception_thrown_in_callback = NoException
  /\ m_cached_options = nullopt
  /\ nat_terminate = FALSE
  /\ nat_export = FALSE
  /\ nat_options = <<OptionEnd>>
  /\ pc = "idle"
  /\ native_solve = NoSolve
  /\ nthrown = 0
  /\ init_result = NullHandle
  /\ released = <<>>
  /\ rethrown = {}
  /\ reg = [terminate |-> NoReg, export |-> NoReg]
  /\ last = NoOp
  /\ cb = NoCb
  /\ opt = NoAccess
  /\ thrown_on = <<>>
  /\ api = NoApi
  /\ m_dll = NoDll
  /\ self = 1
  /\ peer = NoSolver
  /\ lit_conv = NoConv
  /\ mock = NoMock

\* An api over a library loaded at runtime, and up to two solvers made from
\* it, created and destroyed in any order
NextDll ==
  \/ \E openable \in BOOLEAN, exported \in ExportSets : create_api(openable, exported)
  \/ destroy_api
  \/ \E status \in OkOrUnknown : create_solver(status, self)
  \/ \E in \in LitRanges, red \in Redundancies : add(in, red, "IPASIR2_E_OK")
  \/ destroy_solver("IPASIR2_E_OK")
  \/ yield

SpecDll == InitDll /\ [][NextDll]_vars


\* option arrays the native layer may report: up to MaxOptions descriptors,
\* names possibly repeated, then the descriptor with the null name
NativeOptionLists ==
  {Append(l, OptionEnd) : l \in SeqsUpTo([name : OptionNames], MaxOptions)}

OptionValues == {7}
OptionIndices == {<<>>, <<1>>}

InitQueries ==
  /\ phase = "uninitialized"
  /\ m_handle = NullHandle
  /\ m_clause_buf = <<>>
  /\ m_terminate_callback = NoClosure
  /\ m_export_callback = NoExportClosure
  /\ m_exception_thrown_in_callback = NoException
  /\ m_cached_options = nullopt
  /\ nat_terminate = FALSE
  /\ nat_export = FALSE
  /\ nat_options \in NativeOptionLists
  /\ pc = "idle"
  /\ native_solve = NoSolve
  /\ nthrown = 0
  /\ init_result = NullHandle
  /\ released = <<>>
  /\ rethrown = {}
  /\ reg = [terminate |-> NoReg, export |-> NoReg]
  /\ last = NoOp
  /\ cb = NoCb
  /\ opt = NoAccess
  /\ thrown_on = <<>>
  /\ api = LinkedApi
  /\ m_dll = NoDll
  /\ self = 1
  /\ peer = NoSolver
  /\ lit_conv = NoConv
  /\ mock = NoMock

\* The queries on one solver: options and literal values, with every option
\* array and every value the native layer may answer with
NextQueries ==
  \/ \E status \in OkOrUnknown : create_solver(status, 1)
  \/ destroy_solver("IPASIR2_E_OK")
  \/ \E name \in OptionNames, status \in Statuses : get_option(name, status)
  \/ \E status \in Statuses : get_options(status)
  \/ \E name \in OptionNames, status \in Statuses : has_option(name, status)
  \/ \E option \in 1..MaxOptions, value \in OptionValues, index \in OptionIndices,
        status \in OkOrUnknown : set_option(option, value, index, status)
  \/ \E name \in OptionNames, value \in OptionValues, index \in OptionIndices,
        options_status \in OkOrUnknown, status \in OkOrUnknown :
       set_option_by_name(name, value, index, options_status, status)
  \/ \E Lit \in LitTypes, status \in OkOrUnknown, result \in NativeValues :
       \E lit \in LitsOf(Lit) : lit_value(Lit, lit, status, result)
  \/ \E Lit \in LitTypes, status \in OkOrUnknown, result \in NativeValues :
       \E lit \in LitsOf(Lit) : assumption_failed(Lit, lit, status, result)

SpecQueries == InitQueries /\ [][NextQueries]_vars

\* ------------------------------------------------------------------ claims

SolveOps == {"solve()", "solve(Iter, Iter)"}

\* C1: an exception thrown by a terminate or export closure is stored as the
\* pending exception and stays pending until a solve call returns; that solve
\* call (either overload) re-raises it, it was never re-raised before, and the
\* slot is empty afterwards; a solve call that finds the slot empty raises no
\* callback exception and, on native success, returns the decoded result code.
C1_ExceptionRethrownOnce ==
  [][ /\ (nthrown' # nthrown => m_exception_thrown_in_callback' = nthrown')
      /\ (/\ m_exception_thrown_in_callback # NoException
          /\ ~(pc = "solving" /\ pc' = "idle")
          /\ phase' = "active"
          => m_exception_thrown_in_callback' = m_exception_thrown_in_callback)
      /\ (pc = "solving" /\ pc' = "idle" =>
            IF m_exception_thrown_in_callback # NoException
            THEN /\ last'.op \in SolveOps
                 /\ last'.kind = "exception"
                 /\ last'.exc = m_exception_thrown_in_callback
                 /\ last'.exc \notin rethrown
                 /\ m_exception_thrown_in_callback' = NoException
            ELSE /\ last'.op \in SolveOps
                 /\ last'.kind # "exception"
                 /\ (last'.calls[1].status = "IPASIR2_E_OK" =>
                       /\ last'.kind = "return"
                       /\ last'.value = (IF last'.calls[1].args[2] = 10 THEN "true"
                                         ELSE IF last'.calls[1].args[2] = 20 THEN "false"
                                         ELSE "empty")))
    ]_vars

\* C1 witness: an exception has been re-raised and the following solve call returned a result
C1_Witness ==
  /\ rethrown # {}
  /\ last.op = "solve()"
  /\ last.kind = "return"
  /\ last.value = "true"
  /\ m_exception_thrown_in_callback = NoException

\* C2: a trampoline entered while an exception is pending calls no client
\* closure, the terminate trampoline then returns non-zero, and a pending
\* exception is never replaced by another one.
C2_NoClosureWhilePending ==
  [][ /\ (cb'.pending =>
            /\ cb'.called = NoClosure
            /\ cb'.threw = NoException
            /\ (cb'.kind = "terminate" => cb'.ret # 0))
      /\ (/\ m_exception_thrown_in_callback # NoException
          /\ m_exception_thrown_in_callback' # NoException
          => m_exception_thrown_in_callback' = m_exception_thrown_in_callback)
    ]_vars

\* C2 witness: the terminate trampoline ran with an exception pending and closures registered
C2_Witness ==
  /\ cb.kind = "terminate"
  /\ cb.pending
  /\ m_terminate_callback # NoClosure
  /\ m_export_callback.callback # NoClosure
  /\ m_exception_thrown_in_callback # NoException

\* C3: a solve call (either overload) whose native call failed while a
\* callback exception was pending raises the callback exception, not the
\* ipasir2_error of the status.
C3_CallbackExceptionBeforeStatus ==
  (/\ last.op \in SolveOps
   /\ last.calls[1].status # "IPASIR2_E_OK"
   /\ last.pending # NoException)
  => (last.kind = "exception" /\ last.exc = last.pending)

\* C3 witness: solve with assumptions, native failure, exception pending
C3_Witness ==
  /\ last.op = "solve(Iter, Iter)"
  /\ last.calls[1].status # "IPASIR2_E_OK"
  /\ last.pending # NoException

\* C4: set_terminate_callback on a solver that already stores a terminate
\* closure makes no native call and does not fail; and whenever the terminate
\* trampoline calls a closure, it is the closure passed to the most recent
\* set_terminate_callback call.
C4_ReplaceTerminateCallback ==
  [][ /\ (/\ reg.terminate.op = "set"
          /\ ~reg.terminate.failed
          /\ \E c \in Closures, status \in Statuses, applied \in BOOLEAN :
               set_terminate_callback(c, status, applied)
          => (last'.calls = <<>> /\ last'.kind = "return"))
      /\ (cb'.kind = "terminate" /\ cb'.called # NoClosure
          => (reg'.terminate.op = "set" /\ cb'.called = reg'.terminate.callback))
    ]_vars

\* C4 witness: a replacement without native call, then the trampoline called the new closure
C4_Witness ==
  /\ last.op = "set_terminate_callback"
  /\ last.calls = <<>>
  /\ cb.kind = "terminate"
  /\ cb.called # NoClosure
  /\ cb.called = reg.terminate.callback

\* C5: after a set_export_callback or clear_export_callback call that raised
\* ipasir2_error (and was the most recent of the two), the export trampoline
\* calls no client closure.
C5_FailedExportRegistration ==
  (reg.export.failed /\ cb.kind = "export") => cb.called = NoClosure

\* C5 witness: the export trampoline ran after a failed set_export_callback
C5_Witness ==
  /\ reg.export.op = "set"
  /\ reg.export.failed
  /\ last.op # "set_export_callback"
  /\ cb.kind = "export"

\* C6: after a clear_terminate_callback call that raised ipasir2_error, the
\* terminate trampoline entered with no exception pending calls no closure
\* and returns 0.
C6_FailedTerminateClear ==
  (/\ reg.terminate.op = "clear"
   /\ reg.terminate.failed
   /\ cb.kind = "terminate"
   /\ ~cb.pending)
  => (cb.called = NoClosure /\ cb.ret = 0)

\* C6 witness: the terminate trampoline ran after a failed clear_terminate_callback
C6_Witness ==
  /\ reg.terminate.op = "clear"
  /\ reg.terminate.failed
  /\ cb.kind = "terminate"
  /\ ~cb.pending

\* C9: a solve call whose native call succeeded with no callback exception
\* pending returns true for result code 10, false for 20, empty otherwise.
C9_SolveResultDecoding ==
  (/\ last.op \in SolveOps
   /\ last.calls[1].status = "IPASIR2_E_OK"
   /\ last.pending = NoException)
  => /\ last.kind = "return"
     /\ last.value = (IF last.calls[1].args[2] = 10 THEN "true"
                      ELSE IF last.calls[1].args[2] = 20 THEN "false"
                      ELSE "empty")

\* C9 witness: a successful solve call with result code 20
C9_Witness ==
  /\ last.op \in SolveOps
  /\ last.kind = "return"
  /\ last.calls[1].args[2] = 20
  /\ last.value = "false"

C8_StatusErrors ==
  (last.op \notin {"none", "~solver"}) =>
    LET failed == {i \in DOMAIN last.calls : last.calls[i].status # "IPASIR2_E_OK"}
    IN IF failed # {} /\ ~(last.op \in SolveOps /\ last.pending # NoException)
       THEN /\ last.kind = "ipasir2_error"
            /\ \E i \in failed :
                 /\ last.error.code = last.calls[i].status
                 /\ last.error.message[1] = last.calls[i].fn
       ELSE ~(last.kind = "ipasir2_error" /\ last.error.code # "nullopt")

\* C8 witness: set_option by name fetched the options, then ipasir2_set_option failed
C8_Witness ==
  /\ last.op = "set_option(name)"
  /\ Len(last.calls) = 2
  /\ last.calls[2].status = "IPASIR2_E_UNSUPPORTED"
  /\ last.kind = "ipasir2_error"
  /\ last.error.code = "IPASIR2_E_UNSUPPORTED"

\* C10: every add call with an empty clause and every solve call with empty
\* or absent assumptions passes length zero and a non-null pointer to the
\* native entry point.
C10_EmptyNonNull ==
  [][ /\ \A in \in LitRanges, red \in Redundancies, status \in Statuses :
           (add(in, red, status) /\ in.elems = <<>>) =>
             (last'.calls[1].args[3] = 0 /\ last'.calls[1].args[2] # "nullptr")
      /\ \A in \in LitRanges \cup {Absent} :
           (solve_call(in) /\ in.elems = <<>>) =>
             (native_solve'.len = 0 /\ native_solve'.ptr # "nullptr")
    ]_vars

\* the literal type of the elements of an input range
LitTypeOf(in) == IF in.iter = "custom" THEN "custom" ELSE "int32_t"

\* element-wise lit_traits<Lit>::to_ipasir2_lit of a range, in input order
WireOf(in) == [i \in 1..Len(in.elems) |-> to_ipasir2_lit(LitTypeOf(in), in.elems[i])]

\* C11 (as amended): for every non-empty input range backed by contiguous
\* int32 storage, add and solve pass the address of the input's own first
\* element and the input's length to the native layer, and the scratch buffer
\* is left as it was.
C11_ZeroCopyNonEmpty ==
  [][ /\ \A in \in LitRanges, red \in Redundancies, status \in Statuses :
           (add(in, red, status) /\ in.iter = "contiguous" /\ in.elems # <<>>) =>
             /\ last'.calls[1].args[2] = "input"
             /\ last'.calls[1].args[3] = Len(in.elems)
             /\ last'.calls[1].args[4] = in.elems
             /\ m_clause_buf' = m_clause_buf
      /\ \A in \in LitRanges :
           (solve_call(in) /\ in.iter = "contiguous" /\ in.elems # <<>>) =>
             /\ native_solve'.ptr = "input"
             /\ native_solve'.len = Len(in.elems)
             /\ native_solve'.data = in.elems
             /\ m_clause_buf' = m_clause_buf
    ]_vars

\* a clause on contiguous storage was added while the scratch buffer held an
\* earlier, different clause, which is still there
C11_Witness ==
  /\ last.op = "add"
  /\ last.calls[1].args[2] = "input"
  /\ last.calls[1].args[4] = <<1>>
  /\ m_clause_buf = <<-2>>

\* C11 (as stated): for every input range backed by contiguous int32 storage,
\* the empty one included, the pointer passed on is the input's own and the
\* scratch buffer is not written.
C11_ZeroCopy ==
  [][ /\ \A in \in LitRanges, red \in Redundancies, status \in Statuses :
           (add(in, red, status) /\ in.iter = "contiguous") =>
             /\ last'.calls[1].args[2] = "input"
             /\ last'.calls[1].args[3] = Len(in.elems)
             /\ m_clause_buf' = m_clause_buf
      /\ \A in \in LitRanges :
           (solve_call(in) /\ in.iter = "contiguous") =>
             /\ native_solve'.ptr = "input"
             /\ native_solve'.len = Len(in.elems)
             /\ m_clause_buf' = m_clause_buf
    ]_vars

OptionOperation ==
  \/ \E name \in OptionNames, status \in Statuses : get_option(name, status)
  \/ \E status \in Statuses : get_options(status)
  \/ \E name \in OptionNames, status \in Statuses : has_option(name, status)
  \/ \E name \in OptionNames, value \in OptionValues, index \in OptionIndices,
        options_status \in Statuses, status \in Statuses :
       set_option_by_name(name, value, index, options_status, status)

\* the calls of ipasir2_options among the native calls of a wrapper operation
OptionsCalls(calls) == {i \in DOMAIN calls : calls[i].fn = "ipasir2_options"}

\* C13 (as amended): an option operation (get_option, get_options, has_option,
\* set_option by name) invokes the native options entry point exactly once
\* as long as no such invocation on this handle has returned success, and
\* never again once one has, for the lifetime of the handle.
C13_OptionsFetchedUntilSuccess ==
  [][OptionOperation =>
       Cardinality(OptionsCalls(last'.calls)) = (IF opt.fetched THEN 0 ELSE 1)]_vars

\* the options were fetched by an earlier access; a later get_option was
\* answered from the cache without a native call
C13_Witness ==
  /\ opt.fetched
  /\ last.op = "get_option"
  /\ last.kind = "return"
  /\ last.calls = <<>>

\* C13 (as stated): the native options entry point is invoked on the first
\* option operation on a handle and on no later one.
C13_OptionsFetchedOnce ==
  [][OptionOperation =>
       Cardinality(OptionsCalls(last'.calls)) = (IF opt.accessed THEN 0 ELSE 1)]_vars

\* position of the null-name terminator in the native option array
TerminatorPos ==
  CHOOSE i \in DOMAIN nat_options :
    /\ nat_options[i].name = "nullptr"
    /\ \A j \in 1..(i - 1) : nat_options[j].name # "nullptr"

\* the descriptors of the native array, before the terminator, with the name
Listed(name) == {i \in 1..(TerminatorPos - 1) : nat_options[i].name = name}

FirstListed(name) == CHOOSE i \in Listed(name) : \A j \in Listed(name) : i <= j

\* the calls of ipasir2_set_option among the native calls of a wrapper operation
SetOptionCalls(calls) == {i \in DOMAIN calls : calls[i].fn = "ipasir2_set_option"}

\* C14: once the option list was fetched successfully, has_option(name) returns
\* true exactly when the native list has an option of that name before the
\* terminator; get_option(name) returns the first such option and raises
\* ipasir2_error when there is none; set_option(name, value, index) raises
\* ipasir2_error without calling native set_option for a name not listed, and
\* for a listed name calls native set_option once with the first such
\* descriptor, the value and the index (0 when the index is omitted).
C14_OptionLookup ==
  [][ /\ \A name \in OptionNames, status \in Statuses :
           (has_option(name, status) /\ opt'.fetched) =>
             /\ last'.kind = "return"
             /\ (last'.value = "true") <=> (Listed(name) # {})
      /\ \A name \in OptionNames, status \in Statuses :
           (get_option(name, status) /\ opt'.fetched) =>
             IF Listed(name) = {}
             THEN last'.kind = "ipasir2_error"
             ELSE last'.kind = "return" /\ last'.options = <<FirstListed(name)>>
      /\ \A name \in OptionNames, value \in OptionValues, index \in OptionIndices,
            options_status \in Statuses, status \in Statuses :
           (set_option_by_name(name, value, index, options_status, status)
              /\ opt'.fetched) =>
             IF Listed(name) = {}
             THEN last'.kind = "ipasir2_error" /\ SetOptionCalls(last'.calls) = {}
             ELSE /\ Cardinality(SetOptionCalls(last'.calls)) = 1
                  /\ \A i \in SetOptionCalls(last'.calls) :
                        last'.calls[i].args =
                          <<m_handle, FirstListed(name), value,
                            IF index = <<>> THEN 0 ELSE index[1]>>
    ]_vars

\* the native list holds two options of the same name; set_option by that
\* name, index omitted, was answered from the cache and reached native
\* set_option with the first descriptor, the value and index 0
C14_Witness ==
  /\ nat_options = <<[name |-> "a"], [name |-> "a"], OptionEnd>>
  /\ last.op = "set_option(name)"
  /\ last.kind = "return"
  /\ Len(last.calls) = 1
  /\ last.calls[1].args = <<1, 1, 7, 0>>

\* C15: when native val returns success for a literal with non-zero wire
\* value w, lit_value returns true if the native value is w, false if it is
\* -w, the empty optional_bool if it is 0, and for every other native value
\* raises an ipasir2_error that carries no status code.
C15_LitValue ==
  (last.op = "lit_value" /\ last.calls[1].status = "IPASIR2_E_OK"
     /\ last.calls[1].args[2] # 0) =>
    LET w == last.calls[1].args[2]
        r == last.calls[1].args[3]
    IN /\ (r = w) => (last.kind = "return" /\ last.value = "true")
       /\ (r = -w) => (last.kind = "return" /\ last.value = "false")
       /\ (r = 0) => (last.kind = "return" /\ last.value = "empty")
       /\ (r \notin {w, -w, 0}) =>
            (last.kind = "ipasir2_error" /\ last.error.code = "nullopt")

\* lit_value of the custom literal lit{2, false} (wire value -2) got the native
\* value 1 and raised an error without status code
C15_Witness ==
  /\ last.op = "lit_value"
  /\ last.calls[1].status = "IPASIR2_E_OK"
  /\ last.calls[1].args[2] = -2
  /\ last.calls[1].args[3] = 1
  /\ last.kind = "ipasir2_error"
  /\ last.error.code = "nullopt"

\* C16: when native failed returns success, assumption_failed returns true if
\* the native value is 1, false if it is 0, and raises ipasir2_error for every
\* other native value, negative ones and ones greater than 1 included.
C16_AssumptionFailed ==
  (last.op = "assumption_failed" /\ last.calls[1].status = "IPASIR2_E_OK") =>
    LET r == last.calls[1].args[3]
    IN /\ (r = 1) => (last.kind = "return" /\ last.value = "true")
       /\ (r = 0) => (last.kind = "return" /\ last.value = "false")
       /\ (r \notin {0, 1}) => last.kind = "ipasir2_error"

\* assumption_failed got the native value 2 and raised an error
C16_Witness ==
  /\ last.op = "assumption_failed"
  /\ last.calls[1].status = "IPASIR2_E_OK"
  /\ last.calls[1].args[3] = 2
  /\ last.kind = "ipasir2_error"

\* --------------------------------------------------------------------- C17

\* C17: creating an api from a runtime-loaded library raises ipasir2_error and
\* yields no api object if the library cannot be opened or one of the eleven
\* required entry points cannot be resolved; an api object is returned only
\* when the library was opened and all eleven were resolved to non-null
\* addresses, and its table then holds all of them.
C17_CreateApiFromDll ==
  [][\A openable \in BOOLEAN, exported \in ExportSets :
       create_api(openable, exported) =>
         IF openable /\ RequiredSymSet \subseteq exported
         THEN /\ last'.kind = "return"
              /\ api'.state = "alive"
              /\ api'.funcs = RequiredSymSet
              /\ Cardinality(api'.funcs) = 11
              /\ m_dll'.state = "loaded"
         ELSE /\ last'.kind = "ipasir2_error"
              /\ last'.error.code = "nullopt"
              /\ api' = NoApi
              /\ m_dll'.state # "loaded"]_vars

\* a library that lacks one entry point was refused
C17_Witness ==
  /\ last.op = "create_api"
  /\ last.kind = "ipasir2_error"
  /\ last.error.message = <<"Symbol ", "ipasir2_val", " not found in ", "library">>
  /\ api = NoApi

\* --------------------------------------------------------------------- C18

\* the api object and the solvers that hold a share of the library
Referencing ==
  (IF api.state = "alive" THEN 1 ELSE 0)
  + (IF phase = "active" THEN 1 ELSE 0)
  + (IF peer.phase = "active" THEN 1 ELSE 0)

\* C18: a runtime-loaded library stays loaded as long as the api object or a
\* solver created from it exists, also when the api object was destroyed
\* before its solvers; no entry point of the library (a solver's release
\* included) is called after it was unloaded; and it is unloaded exactly once,
\* when the last api object or solver that refers to it is destroyed.
C18_LibraryLifetime ==
  m_dll.state # "none" =>
    /\ (Referencing > 0 => m_dll.state = "loaded" /\ m_dll.unloads = 0)
    /\ (Referencing = 0 => m_dll.state = "unloaded" /\ m_dll.unloads = 1)
    /\ ~m_dll.dangling_call

\* the api object is gone, one solver was released and the other still lives
C18_Witness ==
  /\ api.state = "destroyed"
  /\ phase = "active"
  /\ peer.phase = "released"
  /\ m_dll.state = "loaded"

\* --------------------------------------------------------------------- C20

\* what an add call over the range `in` with the optional redundancy `red`
\* has to do: one native add with the wire literals of `in` in their order
\* and the redundancy given (none if there is none), and no member of the
\* solver but the scratch buffer changes
AddedOnce(in, red, status) ==
  /\ Len(last'.calls) = 1
  /\ last'.calls[1].fn = "ipasir2_add"
  /\ last'.calls[1].status = status
  /\ last'.calls[1].args[1] = m_handle
  /\ last'.calls[1].args[3] = Len(in.elems)
  /\ last'.calls[1].args[4] = WireOf(in)
  /\ last'.calls[1].args[5] = (IF red = <<>> THEN "none" ELSE red[1])
  /\ m_clause_buf' \in {m_clause_buf, WireOf(in), <<0>>}
  /\ UNCHANGED <<phase, m_handle, m_terminate_callback, m_export_callback,
                 m_exception_thrown_in_callback, m_cached_options, nat_terminate,
                 nat_export, pc, native_solve, reg>>

\* C20: each add call (iterator pair, container, or literals optionally
\* followed by one redundancy) makes exactly one native add call that carries
\* the wire conversion of the given literals in the given order and the given
\* redundancy, `none` when none is given; the wrapper keeps nothing of the
\* clause afterwards but its reusable scratch buffer, and what an earlier
\* clause left there does not reach a later call.
C20_AddOnce ==
  [][\A in \in AddRanges, red \in OptRedundancies, status \in OkOrUnknown :
       (add_iterators(in, red, status) \/ add_container(in, red, status)
          \/ add_parampack(in, red, status))
         => AddedOnce(in, red, status)]_vars

\* two custom literals and a redundancy were passed as arguments, after an
\* earlier clause had gone through the scratch buffer
C20_Witness ==
  /\ last.op = "add(T, Ts...)"
  /\ last.calls[1].args[4] = <<-2, 1>>
  /\ last.calls[1].args[5] = "forgettable"
  /\ last.calls[1].args[2] = "m_clause_buf"

\* --------------------------------------------------------------------- C19

\* the members of solver s and what the native layer holds for its handle
View(s) == IF s = self THEN Current ELSE peer

\* C19: with two solvers used by two threads, one solver each, a step of one
\* thread (an operation or a callback invocation on its solver) leaves the
\* other solver's scratch buffer, pending-exception slot, stored closures and
\* cached option list as they were, and so does a switch between the threads;
\* an exception thrown by a callback of one solver is re-raised only by a
\* solve call on that solver.
C19_HandlesIndependent ==
  [][ /\ (self' = self => View(3 - self)' = View(3 - self))
      /\ (self' # self => \A s \in {1, 2} : View(s)' = View(s))
      /\ (nthrown' # nthrown =>
            /\ m_exception_thrown_in_callback' = nthrown'
            /\ thrown_on'[nthrown'] = self)
      /\ (last'.kind = "exception" /\ last' # last =>
            /\ last'.op \in SolveOps
            /\ self' = self
            /\ thrown_on[last'.exc] = self)
    ]_vars

\* solver 2 re-raised the exception of its own closure while solver 1 was
\* in a solve call with an exception of its own pending
C19_Witness ==
  /\ self = 2
  /\ last.kind = "exception"
  /\ thrown_on = <<1, 2>>
  /\ last.exc = 2
  /\ peer.pc = "solving"
  /\ peer.m_exception_thrown_in_callback = 1
  /\ peer.m_clause_buf # m_clause_buf

\* --------------------------------------------------------------------- C21

ExportedLits(Lit, clause) ==
  LET n == CHOOSE k \in 1..Len(clause) :
             clause[k] = 0 /\ \A j \in 1..(k - 1) : clause[j] # 0
  IN [i \in 1..(n - 1) |->
        IF Lit = "int32_t" THEN clause[i]
        ELSE 2 * (IF clause[i] < 0 THEN -clause[i] ELSE clause[i])
               + (IF clause[i] > 0 THEN 1 ELSE 0)]

\* C22: when the export trampoline is invoked with a zero-terminated native
\* clause and no exception is pending, the registered export closure is called
\* (once) with a view of the literals before the terminator, in order and
\* without the terminator, empty for a clause that is only the terminator; for
\* a custom literal type each literal is the from_ipasir2_lit conversion of
\* the native one, and the view holds no literal of an earlier invocation.
C22_ExportView ==
  [][\A clause \in NativeClauses, outcome \in ExportOutcomes :
       (/\ export_trampoline(clause, outcome)
        /\ m_exception_thrown_in_callback = NoException
        /\ m_export_callback.callback # NoClosure)
       => /\ cb'.kind = "export"
          /\ cb'.called = m_export_callback.callback
          /\ cb'.view = ExportedLits(m_export_callback.Lit, clause)
          /\ Len(cb'.view) = Len(clause) - 1]_vars

\* a custom-literal closure got the two literals of a clause, after an
\* earlier invocation had filled its buffer with another clause
C22_Witness ==
  /\ cb.kind = "export"
  /\ cb.called = 1
  /\ m_export_callback.Lit = "custom"
  /\ cb.view = <<custom_lit(2, FALSE), custom_lit(1, TRUE)>>
  /\ rethrown # {}

\* --------------------------------------------------------------------- C23

\* the operations that must leave the pending-exception slot alone
SlotFrameOps ==
  {"add", "lit_value", "assumption_failed", "set_terminate_callback",
   "clear_terminate_callback", "set_export_callback", "clear_export_callback",
   "get_option", "get_options", "has_option", "set_option(option)", "set_option(name)",
   "get_ipasir2_handle"}

\* C23: the pending-exception slot is set only inside a callback trampoline,
\* and only when it is empty, so at most one exception is pending; it is
\* emptied only by a solve call that returns, which re-raises the exception;
\* add, lit_value, assumption_failed, set/clear of either callback, the option
\* operations and get_ipasir2_handle neither set, clear nor re-raise it.
C23_PendingSlotFrame ==
  [][ /\ (/\ m_exception_thrown_in_callback' # m_exception_thrown_in_callback
          /\ phase' = "active"   \* the slot ends with the solver object
          =>
            \/ /\ m_exception_thrown_in_callback = NoException
               /\ cb'.kind \in {"terminate", "export"}
               /\ cb'.threw = m_exception_thrown_in_callback'
               /\ cb'.threw # NoException
               /\ last' = last
            \/ /\ m_exception_thrown_in_callback' = NoException
               /\ pc = "solving"
               /\ pc' = "idle"
               /\ last'.op \in SolveOps
               /\ last'.kind = "exception"
               /\ last'.exc = m_exception_thrown_in_callback)
      /\ (last'.op \in SlotFrameOps =>
            /\ last'.kind # "exception"
            /\ (cb' = NoCb =>
                  /\ m_exception_thrown_in_callback' = m_exception_thrown_in_callback
                  /\ rethrown' = rethrown))
      /\ (rethrown' # rethrown => pc = "solving" /\ pc' = "idle")
    ]_vars

\* an exception is pending, and get_ipasir2_handle ran after the callback
\* that threw it
C23_Witness ==
  /\ m_exception_thrown_in_callback # NoException
  /\ cb = NoCb
  /\ last.op = "get_ipasir2_handle"

\* --------------------------------------------------------------------- C24

\* C24: when the terminate trampoline is invoked with a terminate closure
\* registered and no exception pending, it calls the closure; if the closure
\* returns, the trampoline returns its truth value to the native layer (1 for
\* true, 0 for false) and the slot stays empty; if the closure throws, the
\* trampoline stores that exception in the pending slot, raises nothing
\* itself, and returns the abort signal (non-zero).
C24_TerminateTrampoline ==
  [][\A outcome \in TerminateOutcomes :
       (/\ terminate_trampoline(outcome)
        /\ m_terminate_callback # NoClosure
        /\ m_exception_thrown_in_callback = NoException)
       => /\ cb'.kind = "terminate"
          /\ cb'.called = m_terminate_callback
          /\ last' = last
          /\ IF outcome = "throw"
             THEN /\ cb'.threw # NoException
                  /\ m_exception_thrown_in_callback' = cb'.threw
                  /\ cb'.ret # 0
             ELSE /\ cb'.threw = NoException
                  /\ m_exception_thrown_in_callback' = NoException
                  /\ cb'.ret = (IF outcome = "true" THEN 1 ELSE 0)]_vars

\* the second closure was called with nothing pending and returned false
C24_Witness ==
  /\ cb.kind = "terminate"
  /\ ~cb.pending
  /\ cb.called = 2
  /\ cb.threw = NoException
  /\ cb.ret = 0

\* --------------------------------------------------------------------- C25

\* C25: every solve call makes exactly one native solve call, and looks at the
\* pending-exception slot only after that call has returned: entering solve
\* and the callbacks during the native call re-raise nothing and complete no
\* wrapper call, and an outcome of solve, a re-raised callback exception
\* included, only arises at the return from the one native call.  This also
\* holds when an exception is already pending when solve is entered.
C25_SolveCallsNativeOnce ==
  [][ /\ (pc' = "solving" =>
            /\ last' = last
            /\ rethrown' = rethrown
            /\ (pc = "idle" =>
                  /\ m_exception_thrown_in_callback' = m_exception_thrown_in_callback
                  /\ native_solve'.overload \in SolveOps))
      /\ ((last' # last /\ last'.op \in SolveOps) \/ (rethrown' # rethrown)
           \/ (last'.kind = "exception" /\ last' # last) =>
            /\ pc = "solving"
            /\ pc' = "idle"
            /\ last'.op = native_solve.overload
            /\ Len(last'.calls) = 1
            /\ last'.calls[1].fn = "ipasir2_solve"
            /\ (m_exception_thrown_in_callback # NoException =>
                  last'.kind = "exception" /\ last'.exc = m_exception_thrown_in_callback))
    ]_vars

\* solve was entered with an exception pending and is inside the native call:
\* no callback ran since it was entered
C25_Witness ==
  /\ pc = "solving"
  /\ m_exception_thrown_in_callback # NoException
  /\ cb = NoCb
  /\ native_solve.overload = "solve()"

\* --------------------------------------------------------------------- C26

\* C26: over a native layer that applies a set or clear request exactly when
\* it returns success, after any sequence of set and clear calls with any
\* native results: whenever the solver stores a non-empty terminate (export)
\* closure, the native layer holds the terminate (export) trampoline, which
\* was registered with the solver's address as cookie.
C26_StoredClosureReachable ==
  [][ /\ (m_terminate_callback' # NoClosure => nat_terminate')
      /\ (m_export_callback'.callback # NoClosure => nat_export')
      /\ (nat_terminate' /\ ~nat_terminate =>
            /\ Len(last'.calls) = 1
            /\ last'.calls[1] = Call("ipasir2_set_terminate", "IPASIR2_E_OK",
                                      <<m_handle, "this", "trampoline">>))
      /\ (nat_export' /\ ~nat_export =>
            /\ Len(last'.calls) = 1
            /\ last'.calls[1] = Call("ipasir2_set_export", "IPASIR2_E_OK",
                                      <<m_handle, "this", 0, "trampoline">>))
    ]_vars

\* a clear call failed, a later set call succeeded, and the closure it stored
\* was called through the trampoline
C26_Witness ==
  /\ reg.terminate = RegCall("set", 2, FALSE)
  /\ m_terminate_callback = 2
  /\ nat_terminate
  /\ cb.kind = "terminate"
  /\ cb.called = 2
  /\ m_export_callback.callback = NoClosure
  /\ nat_export

\* --------------------------------------------------------------------- C27

\* C27: if the native options call of get_option, get_options or has_option
\* returns a status other than success, the operation raises ipasir2_error
\* with that status and leaves the option cache unpopulated: no empty or
\* partial list is cached.  The cache becomes populated only by an access
\* whose native options call succeeded, and then holds the options the native
\* layer lists before the terminator.
C27_FailedOptionsNotCached ==
  [][OptionOperation =>
       LET fetches == OptionsCalls(last'.calls)
       IN /\ (last'.op \in {"get_option", "get_options", "has_option"} =>
                \A i \in fetches :
                  last'.calls[i].status # "IPASIR2_E_OK" =>
                    /\ last'.kind = "ipasir2_error"
                    /\ last'.error.code = last'.calls[i].status
                    /\ ~m_cached_options'.has_value
                    /\ m_cached_options' = m_cached_options)
          /\ (m_cached_options' # m_cached_options =>
                /\ ~m_cached_options.has_value
                /\ \E i \in fetches : last'.calls[i].status = "IPASIR2_E_OK"
                /\ m_cached_options'.has_value
                /\ m_cached_options'.value = [i \in 1..(TerminatorPos - 1) |-> i])]_vars

\* has_option met an unsupported options call, and nothing is cached
C27_Witness ==
  /\ last.op = "has_option"
  /\ last.kind = "ipasir2_error"
  /\ last.error.code = "IPASIR2_E_UNSUPPORTED"
  /\ ~m_cached_options.has_value
  /\ opt.accessed

\* ------------------------------------------------------------ IPASIR-2 mock

\* The variables of the wrapper, which the mock leaves alone
wrapper_vars ==
  <<phase, m_handle, m_clause_buf, m_terminate_callback, m_export_callback,
    m_exception_thrown_in_callback, m_cached_options, nat_terminate, nat_export,
    nat_options, pc, native_solve, nthrown, init_result, released, rethrown, reg,
    last, cb, opt, thrown_on, api, m_dll, self, peer, lit_conv>>

\* Statuses a test programs into an expected call
MockReturnValues == {"IPASIR2_E_OK", "IPASIR2_E_UNSUPPORTED"}

MockClauses == {<<1>>, <<2>>}
MockRedundancies == {"IPASIR2_R_NONE", "IPASIR2_R_EQUIVALENT"}
MockMaxLens == {0, 1}

\* One alternative of any_call; the fields another alternative has keep the
\* values given here
NoCall ==
  [kind |-> "none", clause |-> <<>>, redundancy |-> "IPASIR2_R_NONE",
   assumptions |-> <<>>, result |-> 0,
   expect_nonnull_callback |-> TRUE, max_len |-> 0, return_value |-> "IPASIR2_E_OK"]

add_call(clause, redundancy, return_value) ==
  [NoCall EXCEPT !.kind = "add_call", !.clause = clause, !.redundancy = redundancy,
                 !.return_value = return_value]

mock_solve_call(assumptions, result, return_value) ==
  [NoCall EXCEPT !.kind = "solve_call", !.assumptions = assumptions, !.result = result,
                 !.return_value = return_value]

set_terminate_call(expect_nonnull_callback, return_value) ==
  [NoCall EXCEPT !.kind = "set_terminate_call",
                 !.expect_nonnull_callback = expect_nonnull_callback,
                 !.return_value = return_value]

set_export_call(expect_nonnull_callback, max_len, return_value) ==
  [NoCall EXCEPT !.kind = "set_export_call",
                 !.expect_nonnull_callback = expect_nonnull_callback,
                 !.max_len = max_len, !.return_value = return_value]

\* The expected calls a test queues in SpecMock: an add_call with either
\* status and a solve_call
FifoCalls ==
  {add_call(<<1>>, "IPASIR2_R_NONE", rv) : rv \in MockReturnValues}
    \cup {mock_solve_call(<<>>, 10, "IPASIR2_E_OK")}

\* in SpecMockLife: an add_call
LifeCalls == {add_call(<<1>>, "IPASIR2_R_NONE", "IPASIR2_E_OK")}

\* in SpecMockExport: a set_terminate_call that expects a callback and the
\* set_export_calls that expect a callback or none, with either status
ExportCalls ==
  {set_terminate_call(TRUE, "IPASIR2_E_OK")}
    \cup {set_export_call(nn, 0, rv) : nn \in BOOLEAN, rv \in MockReturnValues}

\* The alternatives of any_call that a test queues
any_call == FifoCalls \cup LifeCalls \cup ExportCalls

\* The mock after a call fn on instance `on` of the test or of the client
MockReturned(m, fn, on, ret, result) ==
  [m EXCEPT !.fn = fn, !.on = on, !.ret = ret, !.result = result, !.fail = "none",
            !.thrown = "none"]

\* catch (std::exception const& error) { fail_test(error.what()); return IPASIR2_E_UNKNOWN; }
MockFailed(m, fn, on, message) ==
  [m EXCEPT !.fn = fn, !.on = on, !.ret = "IPASIR2_E_UNKNOWN", !.result = 0,
            !.fail = message, !.thrown = "none"]

\* an ipasir2_mock_error leaves a function the test called
MockThrew(m, fn, on, message) ==
  [m EXCEPT !.fn = fn, !.on = on, !.ret = "none", !.result = 0, !.fail = "none",
            !.thrown = message]

NoMockError == "none"

RECURSIVE queued(_, _)
queued(m_instances, n) ==
  IF n = 0 THEN 0 ELSE Len(m_instances[n].expected_calls) + queued(m_instances, n - 1)

expect_call(instance_id, call) ==
  /\ queued(mock.m_instances, MockInstances) < MaxExpected
  /\ mock' = MockReturned(
       [mock EXCEPT !.m_instances[instance_id].known = TRUE,
                    !.m_instances[instance_id].expected_calls = Append(@, call)],
       "expect_call", instance_id, "none", 0)
  /\ UNCHANGED wrapper_vars

\* expect_call by a test that expects a call when the calls it expected
\* before have all been made
expect_next_call(instance_id, call) ==
  /\ queued(mock.m_instances, MockInstances) = 0
  /\ expect_call(instance_id, call)

expect_init_call(instance_id) ==
  /\ mock' =
       IF mock.m_next_init_call.has_value
       THEN MockThrew(mock, "expect_init_call", instance_id,
                      "ipasir2_init() has not been called since setting the previous ID")
       ELSE IF mock.m_instances[instance_id].known
       THEN MockThrew(mock, "expect_init_call", instance_id,
                      "the instance ID has already been used")
       ELSE MockReturned(
              [mock EXCEPT !.m_next_init_call =
                 [has_value |-> TRUE, id |-> instance_id, return_value |-> "IPASIR2_E_OK"]],
              "expect_init_call", instance_id, "none", 0)
  /\ UNCHANGED wrapper_vars

expect_init_call_and_fail(result) ==
  /\ mock' = MockReturned(
       [mock EXCEPT !.m_next_init_call =
          [has_value |-> TRUE, id |-> 0, return_value |-> result]],
       "expect_init_call_and_fail", 0, "none", 0)
  /\ UNCHANGED wrapper_vars

\* bool has_outstanding_expects() const
has_outstanding_expects(m) ==
  IF m.m_next_init_call.has_value THEN TRUE
  ELSE \E id \in MockIds : m.m_instances[id].known /\ ~m.m_instances[id].is_released

bool_string(b) == IF b THEN "true" ELSE "false"

has_outstanding_expects_call ==
  /\ mock' = MockReturned(mock, "has_outstanding_expects", 0,
                          bool_string(has_outstanding_expects(mock)), 0)
  /\ UNCHANGED wrapper_vars

\* bool is_alive(instance_id) const, for an instance the mock knows
is_alive(m_instances, instance_id) ==
  m_instances[instance_id].is_initialized /\ ~m_instances[instance_id].is_released

pop_current_expected_call_any_kind(m_instances, instance_id, CallT) ==
  LET expected_calls == m_instances[instance_id].expected_calls
      thrown(message) ==
        [error |-> message, result |-> NoCall, m_instances |-> m_instances]
  IN IF ~m_instances[instance_id].known
     THEN thrown("IPASIR2 function called for unknown solver object")
     ELSE IF ~is_alive(m_instances, instance_id)
     THEN thrown("IPASIR2 function called for released or not-yet-initialized solver object")
     ELSE IF expected_calls = <<>>
     THEN thrown("IPASIR2 function called, but no further calls expected")
     ELSE [error |-> NoMockError,
           result |-> Head(expected_calls),
           m_instances |->
             [m_instances EXCEPT ![instance_id].expected_calls = Tail(expected_calls)]]

\* template <typename CallT> CallT pop_current_expected_call(instance_id):
\* the expectation at the front, taken off the queue, or the error thrown
pop_current_expected_call(m_instances, instance_id, CallT) ==
  LET expected_calls == m_instances[instance_id].expected_calls
      thrown(message) ==
        [error |-> message, result |-> NoCall, m_instances |-> m_instances]
  IN IF ~m_instances[instance_id].known
     THEN thrown("IPASIR2 function called for unknown solver object")
     ELSE IF ~is_alive(m_instances, instance_id)
     THEN thrown("IPASIR2 function called for released or not-yet-initialized solver object")
     ELSE IF expected_calls = <<>>
     THEN thrown("IPASIR2 function called, but no further calls expected")
     ELSE IF Head(expected_calls).kind # CallT
     THEN thrown("IPASIR2 function called, but different call expected")
     ELSE [error |-> NoMockError,
           result |-> Head(expected_calls),
           m_instances |->
             [m_instances EXCEPT ![instance_id].expected_calls = Tail(expected_calls)]]

change_aliveness_without_check(m_instances, instance_id, change_to_alive) ==
  [error |-> NoMockError,
   m_instances |->
     IF change_to_alive
     THEN [m_instances EXCEPT ![instance_id].known = TRUE,
                              ![instance_id].is_initialized = TRUE]
     ELSE [m_instances EXCEPT ![instance_id].known = TRUE,
                              ![instance_id].is_released = TRUE]]

\* void change_aliveness(instance_id, bool change_to_alive): m_instances[id]
\* makes the instance known before the checks
change_aliveness(m_instances, instance_id, change_to_alive) ==
  LET created == [m_instances EXCEPT ![instance_id].known = TRUE]
      instance == created[instance_id]
      to_alive_allowed == ~instance.is_initialized /\ ~instance.is_released
      to_dead_allowed == instance.is_initialized /\ ~instance.is_released
  IN IF change_to_alive /\ ~to_alive_allowed
     THEN [error |-> "IPASIR2 solver initialized twice, or initialized after release",
           m_instances |-> created]
     ELSE IF ~change_to_alive /\ ~to_dead_allowed
     THEN [error |-> "IPASIR2 solver released twice, or released before initialzed",
           m_instances |-> created]
     ELSE [error |-> NoMockError,
           m_instances |->
             IF change_to_alive
             THEN [created EXCEPT ![instance_id].is_initialized = TRUE]
             ELSE [created EXCEPT ![instance_id].is_released = TRUE]]

\* ipasir2_errorcode ipasir2_init(void** result); `on` is *result
ipasir2_init ==
  /\ LET next == mock.m_next_init_call
         popped == [mock EXCEPT !.m_next_init_call = NoInitCall]
     IN mock' =
          IF ~next.has_value
          THEN MockFailed(mock, "ipasir2_init", 0,
                          "ipasir2_init() has been called unexpectedly")
          ELSE IF next.id # 0
          THEN LET changed == change_aliveness(mock.m_instances, next.id, TRUE)
               IN IF changed.error # NoMockError
                  THEN MockFailed([popped EXCEPT !.m_instances = changed.m_instances],
                                  "ipasir2_init", 0, changed.error)
                  ELSE MockReturned([popped EXCEPT !.m_instances = changed.m_instances],
                                    "ipasir2_init", next.id, next.return_value, 0)
          ELSE MockReturned(popped, "ipasir2_init", 0, next.return_value, 0)
  /\ UNCHANGED wrapper_vars

\* ipasir2_errorcode ipasir2_release(void* solver)
ipasir2_release(solver) ==
  /\ mock' =
       IF ~mock.m_instances[solver].known
       THEN MockFailed(mock, "ipasir2_release", solver,
                       "IPASIR2 function called for unknown solver object")
       ELSE IF mock.m_instances[solver].expected_calls # <<>>
       THEN MockFailed(mock, "ipasir2_release", solver,
                       "ipasir_release() has been called, but the instance has outstanding expected calls")
       ELSE LET changed == change_aliveness(mock.m_instances, solver, FALSE)
            IN IF changed.error # NoMockError
               THEN MockFailed([mock EXCEPT !.m_instances = changed.m_instances],
                               "ipasir2_release", solver, changed.error)
               ELSE MockReturned([mock EXCEPT !.m_instances = changed.m_instances],
                                 "ipasir2_release", solver, "IPASIR2_E_OK", 0)
  /\ UNCHANGED wrapper_vars

\* What a check function does with the expectation it is given: the error it
\* throws or the status it returns, and the callback registrations it leaves
Checked(error, return_value, terminate_callbacks, export_callbacks) ==
  [error |-> error, return_value |-> return_value, result |-> 0,
   m_terminate_callbacks |-> terminate_callbacks,
   m_export_callbacks |-> export_callbacks]

CheckThrew(message) ==
  Checked(message, "IPASIR2_E_UNKNOWN", mock.m_terminate_callbacks, mock.m_export_callbacks)

\* template <typename CallType> check_ipasir2_call(solver, check_function);
\* check_function maps the expectation it is given to what it does with it
check_ipasir2_call(fn, solver, CallType, check_function) ==
  /\ LET popped == pop_current_expected_call(mock.m_instances, solver, CallType)
         checked == check_function[popped.result]
         consumed == [mock EXCEPT !.m_instances = popped.m_instances]
     IN mock' =
          IF popped.error # NoMockError
          THEN MockFailed(mock, fn, solver, popped.error)
          ELSE IF checked.error # NoMockError
          THEN MockFailed(consumed, fn, solver, checked.error)
          ELSE MockReturned(
                 [consumed EXCEPT !.m_terminate_callbacks = checked.m_terminate_callbacks,
                                  !.m_export_callbacks = checked.m_export_callbacks],
                 fn, solver, checked.return_value, checked.result)
  /\ UNCHANGED wrapper_vars

\* ipasir2_errorcode ipasir2_add(solver, clause, len, redundancy)
ipasir2_add(solver, clause, redundancy) ==
  /\ check_ipasir2_call("ipasir2_add", solver, "add_call",
       [spec \in any_call |->
         IF spec.clause # clause
         THEN CheckThrew("ipasir2_add(): unexpected clause")
         ELSE IF spec.redundancy # redundancy
         THEN CheckThrew("ipasir2_add(): unexpected redundancy")
         ELSE Checked(NoMockError, spec.return_value,
                      mock.m_terminate_callbacks, mock.m_export_callbacks)])

\* ipasir2_errorcode ipasir2_solve(solver, result, assumptions, len)
ipasir2_solve(solver, assumptions) ==
  /\ check_ipasir2_call("ipasir2_solve", solver, "solve_call",
       [spec \in any_call |->
         IF spec.assumptions # assumptions
         THEN CheckThrew("ipasir2_solve(): unexpected assumptions")
         ELSE [Checked(NoMockError, spec.return_value,
                       mock.m_terminate_callbacks, mock.m_export_callbacks)
                 EXCEPT !.result = spec.result]])

\* ipasir2_errorcode ipasir2_set_terminate(solver, data, callback); data and
\* callback are TRUE if they are not null
ipasir2_set_terminate(solver, data, callback) ==
  /\ check_ipasir2_call("ipasir2_set_terminate", solver, "set_terminate_call",
       [spec \in any_call |->
         IF spec.expect_nonnull_callback
         THEN IF ~data \/ ~callback
              THEN CheckThrew("ipasir2_set_terminate(): expected to get a callback, but it was cleared")
              ELSE Checked(NoMockError, spec.return_value,
                           mock.m_terminate_callbacks \cup {solver},
                           mock.m_export_callbacks)
         ELSE IF data \/ callback
              THEN CheckThrew("ipasir2_set_terminate(): expected the callback to be cleared, but it was set")
              ELSE Checked(NoMockError, spec.return_value,
                           IF spec.return_value = "IPASIR2_E_OK"
                           THEN mock.m_terminate_callbacks \ {solver}
                           ELSE mock.m_terminate_callbacks,
                           mock.m_export_callbacks)])

\* ipasir2_errorcode ipasir2_set_export(solver, data, max_len, callback): a
\* successful clearing call erases the instance from m_terminate_callbacks
ipasir2_set_export(solver, data, max_len, callback) ==
  /\ check_ipasir2_call("ipasir2_set_export", solver, "set_export_call",
       [spec \in any_call |->
         IF max_len # spec.max_len
         THEN CheckThrew("ipasir2_set_export(): unexpected max clause length")
         ELSE IF spec.expect_nonnull_callback
         THEN IF ~data \/ ~callback
              THEN CheckThrew("ipasir2_set_export(): expected to get a callback, but it was cleared")
              ELSE Checked(NoMockError, spec.return_value,
                           mock.m_terminate_callbacks,
                           mock.m_export_callbacks \cup {solver})
         ELSE IF data \/ callback
              THEN CheckThrew("ipasir2_set_export(): expected the callback to be cleared, but it was set")
              ELSE Checked(NoMockError, spec.return_value,
                           IF spec.return_value = "IPASIR2_E_OK"
                           THEN mock.m_terminate_callbacks \ {solver}
                           ELSE mock.m_terminate_callbacks,
                           mock.m_export_callbacks)])

\* What a registered callback does when the mock calls it
CallbackOutcomes == {"return", "throw"}

NoExportCallback == "Currently no export callback registered for the given instance"
NoTerminateCallback == "Currently no terminate callback registered for the given instance"

\* void simulate_export_callback_call(instance_id, clause)
simulate_export_callback_call(instance_id, outcome) ==
  /\ mock' =
       IF instance_id \notin mock.m_export_callbacks
       THEN MockThrew(mock, "simulate_export_callback_call", instance_id, NoExportCallback)
       ELSE IF outcome = "throw"
       THEN [MockReturned(mock, "simulate_export_callback_call", instance_id, "none", 0)
               EXCEPT !.fail = "An exception was thrown from export callback back into the solver"]
       ELSE MockReturned(mock, "simulate_export_callback_call", instance_id, "none", 0)
  /\ UNCHANGED wrapper_vars

\* void simulate_terminate_callback_call(instance_id, expected_cb_result);
\* `expected` says whether the callback returned the expected result
simulate_terminate_callback_call(instance_id, outcome, expected) ==
  /\ mock' =
       IF instance_id \notin mock.m_terminate_callbacks
       THEN MockThrew(mock, "simulate_terminate_callback_call", instance_id,
                      NoTerminateCallback)
       ELSE IF outcome = "throw"
       THEN [MockReturned(mock, "simulate_terminate_callback_call", instance_id, "none", 0)
               EXCEPT !.fail = "An exception was thrown from the terminate callback into the solver"]
       ELSE IF ~expected
       THEN MockThrew(mock, "simulate_terminate_callback_call", instance_id,
                      "Terminate callback returned unexpected result")
       ELSE MockReturned(mock, "simulate_terminate_callback_call", instance_id, "none", 0)
  /\ UNCHANGED wrapper_vars

MockAssumptions == {<<>>, <<1>>}

\* A test gives an instance its expected calls and a client makes calls of
\* the two kinds on it, in any order
NextMock ==
  \/ \E id \in MockIds : expect_init_call(id)
  \/ ipasir2_init
  \/ \E id \in MockIds : \E call \in FifoCalls : expect_call(id, call)
  \/ \E solver \in MockIds : \E clause \in MockClauses :
       \E redundancy \in MockRedundancies : ipasir2_add(solver, clause, redundancy)
  \/ \E solver \in MockIds : \E assumptions \in MockAssumptions :
       ipasir2_solve(solver, assumptions)
  \/ \E solver \in MockIds : ipasir2_release(solver)

SpecMock == Init /\ [][NextMock]_vars

\* A test expects instances and a client initializes, uses and releases them
NextMockLife ==
  \/ \E id \in MockIds : expect_init_call(id)
  \/ \E result \in MockReturnValues : expect_init_call_and_fail(result)
  \/ ipasir2_init
  \/ \E id \in MockIds : \E call \in LifeCalls : expect_call(id, call)
  \/ \E solver \in MockIds : ipasir2_add(solver, <<1>>, "IPASIR2_R_NONE")
  \/ \E solver \in MockIds : ipasir2_release(solver)
  \/ has_outstanding_expects_call

SpecMockLife == Init /\ [][NextMockLife]_vars

\* A client sets and clears the callbacks of instances and the test has the
\* mock call them; the test expects the next call when the last one was made
NextMockExport ==
  \/ \E id \in MockIds : expect_init_call(id)
  \/ ipasir2_init
  \/ \E id \in MockIds : \E call \in ExportCalls : expect_next_call(id, call)
  \/ \E solver \in MockIds : \E data \in BOOLEAN : \E callback \in BOOLEAN :
       ipasir2_set_terminate(solver, data, callback)
  \/ \E solver \in MockIds : \E data \in BOOLEAN : \E callback \in BOOLEAN :
       \E max_len \in MockMaxLens : ipasir2_set_export(solver, data, max_len, callback)
  \/ \E id \in MockIds : \E outcome \in CallbackOutcomes :
       simulate_export_callback_call(id, outcome)
  \/ \E id \in MockIds : \E outcome \in CallbackOutcomes : \E expected \in BOOLEAN :
       simulate_terminate_callback_call(id, outcome, expected)

SpecMockExport == Init /\ [][NextMockExport]_vars

\* --------------------------------------------------------------------- C28

\* The instance is alive and the expectation at the front of its queue is of
\* the kind CallType
FrontExpected(solver, CallType) ==
  LET instance == mock.m_instances[solver]
  IN /\ instance.known
     /\ instance.is_initialized
     /\ ~instance.is_released
     /\ instance.expected_calls # <<>>
     /\ Head(instance.expected_calls).kind = CallType

\* The step took the front expectation off the queue of the instance and
\* changed no other queue
Consumed(solver) ==
  mock'.m_instances =
    [mock.m_instances EXCEPT ![solver].expected_calls = Tail(@)]

ReportedFailure ==
  /\ mock'.fail # "none"
  /\ mock'.ret = "IPASIR2_E_UNKNOWN"

ReturnedProgrammed(solver) ==
  /\ mock'.fail = "none"
  /\ mock'.ret = Head(mock.m_instances[solver].expected_calls).return_value

\* A native call of the kind CallType on the instance, as the mock has to
\* treat it; matching are the expectations that hold the arguments of the
\* call
FifoStepMatching(solver, CallType, matching) ==
  IF FrontExpected(solver, CallType)
  THEN /\ Consumed(solver)
       /\ IF Head(mock.m_instances[solver].expected_calls) \in matching
          THEN ReturnedProgrammed(solver)
          ELSE ReportedFailure
  ELSE /\ ReportedFailure
       /\ mock'.m_instances = mock.m_instances

FifoStep(solver, CallType) ==
  IF FrontExpected(solver, CallType)
  THEN /\ Consumed(solver)
       /\ ReturnedProgrammed(solver)
  ELSE ReportedFailure

\* C28 as stated: a native call whose kind equals the front expectation of its
\* instance consumes the expectation and returns its programmed status; a call
\* of another kind, a call when no expectation is left and a call on an
\* instance that is not alive report a failure and return IPASIR2_E_UNKNOWN.
C28_FifoOrder ==
  [][/\ mock'.fn = "ipasir2_add" =>
          \A clause \in MockClauses : \A redundancy \in MockRedundancies :
            ipasir2_add(mock'.on, clause, redundancy) => FifoStep(mock'.on, "add_call")
     /\ mock'.fn = "ipasir2_solve" =>
          \A assumptions \in MockAssumptions :
            ipasir2_solve(mock'.on, assumptions) => FifoStep(mock'.on, "solve_call")]_vars

\* C28: a native call whose kind equals the front expectation of its instance
\* consumes the expectation; it returns the programmed status if its
\* arguments are the ones the expectation holds, and reports a failure and
\* returns IPASIR2_E_UNKNOWN if they are not.  A call of another kind, a call
\* when no expectation is left and a call on an instance that is not alive
\* report a failure, return IPASIR2_E_UNKNOWN and leave every queue as it is.
C28_FifoOrderMatchingArguments ==
  [][/\ mock'.fn = "ipasir2_add" =>
          \A clause \in MockClauses : \A redundancy \in MockRedundancies :
            ipasir2_add(mock'.on, clause, redundancy) =>
              FifoStepMatching(mock'.on, "add_call",
                {spec \in any_call :
                   spec.clause = clause /\ spec.redundancy = redundancy})
     /\ mock'.fn = "ipasir2_solve" =>
          \A assumptions \in MockAssumptions :
            ipasir2_solve(mock'.on, assumptions) =>
              FifoStepMatching(mock'.on, "solve_call",
                {spec \in any_call : spec.assumptions = assumptions})]_vars

\* Two expectations were queued in advance; the add_call at the front was
\* consumed by ipasir2_add, which returned its status, and the solve_call
\* behind it is now at the front
C28_Witness ==
  /\ mock.fn = "ipasir2_add"
  /\ mock.fail = "none"
  /\ mock.ret = "IPASIR2_E_UNSUPPORTED"
  /\ mock.m_instances[mock.on].expected_calls = <<mock_solve_call(<<>>, 10, "IPASIR2_E_OK")>>

\* --------------------------------------------------------------------- C29

\* The step made the instance alive
Initialized(id) ==
  ~mock.m_instances[id].is_initialized /\ mock'.m_instances[id].is_initialized

\* The step released the instance
Released(id) ==
  ~mock.m_instances[id].is_released /\ mock'.m_instances[id].is_released

\* No instance is initialized or released by the step
SameAliveness ==
  \A id \in MockIds :
    /\ mock'.m_instances[id].is_initialized = mock.m_instances[id].is_initialized
    /\ mock'.m_instances[id].is_released = mock.m_instances[id].is_released

\* C29: an instance of the mock goes from not initialized to alive and from
\* alive to released, at most once each and in this order: only ipasir2_init
\* with the instance pending makes it alive, only ipasir2_release of the alive
\* instance without expected calls releases it.  ipasir2_init without a
\* pending expected init, the release of an unknown or an already released
\* instance and the release of an instance that still has expected calls
\* report a failure to the fail observer and change no instance.
\* has_outstanding_expects() returns false exactly when no expected init is
\* pending and every instance the mock knows has been released.
C29_InstanceLifeCycle ==
  [][/\ \A id \in MockIds :
          /\ mock.m_instances[id].is_initialized => mock'.m_instances[id].is_initialized
          /\ mock.m_instances[id].is_released => mock'.m_instances[id].is_released
          /\ mock'.m_instances[id].is_released => mock'.m_instances[id].is_initialized
          /\ Initialized(id) =>
               /\ mock'.fn = "ipasir2_init"
               /\ mock'.fail = "none"
               /\ mock.m_next_init_call.has_value
               /\ mock.m_next_init_call.id = id
               /\ ~mock'.m_instances[id].is_released
          /\ Released(id) =>
               /\ mock'.fn = "ipasir2_release"
               /\ mock'.on = id
               /\ mock'.fail = "none"
               /\ mock'.ret = "IPASIR2_E_OK"
               /\ mock.m_instances[id].is_initialized
               /\ mock.m_instances[id].expected_calls = <<>>
     /\ (ipasir2_init /\ ~mock.m_next_init_call.has_value) =>
          ReportedFailure /\ SameAliveness
     /\ \A solver \in MockIds :
          (/\ ipasir2_release(solver)
           /\ \/ ~mock.m_instances[solver].known
              \/ mock.m_instances[solver].is_released
              \/ mock.m_instances[solver].expected_calls # <<>>) =>
            ReportedFailure /\ SameAliveness
     /\ has_outstanding_expects_call =>
          (mock'.ret = "false" <=>
             /\ ~mock.m_next_init_call.has_value
             /\ \A id \in MockIds :
                  mock.m_instances[id].known => mock.m_instances[id].is_released)]_vars

\* An instance was released a second time, which the mock reported, and it is
\* still released
C29_Witness ==
  /\ mock.fn = "ipasir2_release"
  /\ mock.fail = "IPASIR2 solver released twice, or released before initialzed"
  /\ mock.m_instances[mock.on].is_released
  /\ \E id \in MockIds : id # mock.on /\ is_alive(mock.m_instances, id)

\* --------------------------------------------------------------------- C30

\* C30: ipasir2_set_export changes only the export-callback registration of
\* the instance it is called on: no call changes a terminate-callback
\* registration or the export registration of another instance, and a call
\* with a null callback that returns IPASIR2_E_OK removes the export
\* registration of its instance, so that simulate_export_callback_call for
\* the instance then throws that no export callback is registered.
C30_SetExportFrame ==
  [][/\ \A solver \in MockIds : \A data \in BOOLEAN : \A callback \in BOOLEAN :
          \A max_len \in MockMaxLens :
            ipasir2_set_export(solver, data, max_len, callback) =>
              /\ mock'.m_terminate_callbacks = mock.m_terminate_callbacks
              /\ mock'.m_export_callbacks \ {solver} = mock.m_export_callbacks \ {solver}
              /\ (/\ ~data
                  /\ ~callback
                  /\ mock'.fail = "none"
                  /\ mock'.ret = "IPASIR2_E_OK") =>
                   solver \notin mock'.m_export_callbacks
     /\ \A id \in MockIds : \A outcome \in CallbackOutcomes :
          simulate_export_callback_call(id, outcome) =>
            (mock'.thrown = NoExportCallback <=> id \notin mock.m_export_callbacks)]_vars

====
